---- MODULE Spec2Model ----
(***************************************************************************)
(* Model of the concept map-reduce pipeline and of the retrieval fusion    *)
(* of the MCQ generation system.                                           *)
(*                                                                         *)
(* A text is the sequence of its tokens, so that TokenCounter.count_tokens *)
(* is Len.  "\n\n".join puts one separator token between two pieces.       *)
(* Each component has its own specification (CombinerSpec, MapperSpec,     *)
(* RankerSpec, RetrieverSpec, PipelineSpec, QuestionGenSpec, StagesSpec,  *)
(* FactorySpec); the                                                       *)
(* variables of the components that a specification does not run stay at   *)
(* their idle values.                                                      *)
(***************************************************************************)
EXTENDS Integers, Sequences, FiniteSets, TLC

\* ------------------------------------------------------------------ bounds
MaxBlobs == 3
MaxBlobTokens == 2
MaxBudget == 3
MaxRespTokens == 2
MaxPasses == 4
MaxCalls == 6
MaxChunks == 3
MaxWorkers == 2
MaxRecords == 3
MaxRespLen == 4
MaxK == 3
MaxConcepts == 2

\* ---------------------------------------------------------------- constants
\* k of reciprocal_rank_fusion(results_lists, k=60)
RrfK == 60

\* k: int = 5 of retrieve(query, k)
DefaultK == 5

\* max_workers: int = 8 of ConceptMapper
DefaultMaxWorkers == 8

\* num_questions: int = 2 of generate_questions
DefaultNumQuestions == 2

VARIABLES
  \* ConceptCombiner.combine_concepts
  cb_pc,          \* "idle" | "check" | "batch" | "done"
  concepts_list,  \* the input list of concept texts
  max_tokens,     \* self.max_tokens
  current_sets,   \* the current round's list
  new_sets,       \* the list the running pass builds
  cb_i,           \* the loop variable i of range(0, len(current_sets), batch_size)
  cb_passes,      \* passes completed (saturates at MaxPasses)
  cb_trace,       \* len(current_sets) at the start and after each counted pass
  cb_calls,       \* generation calls issued (saturates at MaxCalls)
  cb_oversize,    \* some batch answer alone had more than max_tokens tokens
  cb_result,      \* the returned text
  cb_genok,       \* per entry of new_sets, whether its generation call succeeded
  cb_batches,     \* per call of the running pass: its batch and its answer
  cb_again,       \* the running application is the one to the first one's result
  cb_first,       \* the text the first application returned
  \* ConceptMapper.extract
  mp_pc,          \* "idle" | "running" | "returned"
  chunks,         \* the input chunks
  max_workers,    \* self.max_workers
  mp_task,        \* per chunk, its task: "queued" | "running" | "finished"
  mp_future,      \* per chunk, what process_chunk returned (None until it has)
  mp_genok,       \* per chunk, whether its generation call succeeded
  mp_calls,       \* per chunk, the generation calls issued for it
  mp_yielded,     \* the chunks whose future as_completed has yielded
  concepts,       \* the list the collecting loop appends to
  mp_origin,      \* per entry of concepts, the chunk it comes from
  mp_output,      \* the returned list of blobs
  \* ConceptRanker.rank / get_ranked_concepts
  rk_pc,          \* "idle" | "ready" | "ranked" | "sorted"
  dict_concepts,  \* the input records
  rk_answer,      \* result["answer"] of the ranking call
  rk_parsed,      \* what parse_rankings returned
  rk_rankings,    \* what rank returned
  rk_raised,      \* the operation ended with an exception
  rk_calls,       \* generation calls issued
  rk_ranked,      \* what get_ranked_concepts returned
  \* PassageExtractor.retrieve / reciprocal_rank_fusion
  rt_pc,          \* "idle" | "faiss" | "sim" | "fuse" | "returned" | "extracted"
  rt_index,       \* the documents of the index
  rt_k,           \* the k of retrieve(query, k)
  results_lists,  \* the lists of (doc, score) of the methods that have run
  rt_pos,         \* <<list, rank>> of the entry the fusion loops are at
  scores,         \* the dictionary doc_id -> fused score, in insertion order
  doc_mapping,    \* the dictionary doc_id -> doc, as a list of its items
  rt_failed,      \* an exception was caught by retrieve
  rt_result,      \* what retrieve returned
  rt_via_extract, \* retrieve was called by extract
  rt_passages,    \* what extract returned
  \* ConceptPipeline.run
  pl_pc,          \* "idle" | "Mapping" | "Combining" | "Reducing" | "Ranking" | "Done" | "Failed"
  pl_stages,      \* the stages the run has entered, in order
  concepts_map_list,  \* what mapper.extract returned
  final_main_ideas,   \* what combiner.combine_concepts returned
  reduced,        \* what reducer.reduce returned
  pl_rank_calls,  \* how many of the two calls of ranker.rank have returned
  pl_rankings,    \* the local rankings of run
  pl_rankings2,   \* the local rankings of get_ranked_concepts
  pl_ranked,      \* the local ranked_concepts
  pl_genfail,     \* the stages in which a generation call was seen to fail
  pl_reducer_failed,  \* reducer.reduce raised
  pl_raised,      \* run propagated an exception to its caller
  pl_returned,    \* the pair run returned
  \* QuestionGenerator.generate_questions
  gq_pc,          \* "idle" | "running" | "unwinding" | "returned" | "raised"
  ranked_concepts,    \* the input list of concept records
  gq_max_workers, \* self.max_workers
  save_path,      \* the save_path argument (None or a path)
  gq_task,        \* per concept, its task: "queued" | "running" | "finished"
  gq_future,      \* per concept, what its future holds once the task has finished
  gq_run,         \* per concept, what _generate_single saw and did on the way,
                  \* what the model had to say (response), and how many times
                  \* the task has run (runs)
  gq_yielded,     \* the concepts whose future as_completed has yielded
  gq_parsed,      \* per concept, what _clean_and_add_ground_truth did with its output
  all_questions,  \* the list the collecting loop extends
  gq_origin,      \* per entry of all_questions, the concept it comes from
  gq_saved,       \* "none" | "saved" | "failed": what became of the save attempt
  gq_result,      \* the returned dictionary
  \* MCQPipelineFactory.run_pipeline
  fm_pc,          \* "idle" | "ingest" | "indexing" | "saving" | "process" | "concepts"
                  \* | "generate" | "done" | "raised"
  fm_chunks,      \* the chunks ingest made of the input file
  db,             \* the vector store: whether it exists, and the passages in its index
  fm_concepts,    \* how many records generate_questions was handed
  fm_task,        \* per concept, where its task is: "queued" | "sim" | "finished"
  fm_log          \* the operations on the index so far, in order

cbVars == <<cb_pc, concepts_list, max_tokens, current_sets, new_sets, cb_i,
            cb_passes, cb_trace, cb_calls, cb_oversize, cb_result, cb_genok,
            cb_batches,
            cb_again, cb_first>>

mpVars == <<mp_pc, chunks, max_workers, mp_task, mp_future, mp_genok, mp_calls, mp_yielded,
            concepts, mp_origin, mp_output>>

rkVars == <<rk_pc, dict_concepts, rk_answer, rk_parsed, rk_rankings, rk_raised,
            rk_calls, rk_ranked>>

rtVars == <<rt_pc, rt_index, rt_k, results_lists, rt_pos, scores, doc_mapping,
            rt_failed, rt_result, rt_via_extract, rt_passages>>

plVars == <<pl_pc, pl_stages, concepts_map_list, final_main_ideas, reduced,
            pl_rank_calls, pl_rankings, pl_rankings2, pl_ranked, pl_genfail, pl_reducer_failed,
            pl_raised, pl_returned>>

gqVars == <<gq_pc, ranked_concepts, gq_max_workers, save_path, gq_task, gq_future,
            gq_run, gq_yielded, gq_parsed, all_questions, gq_origin, gq_saved,
            gq_result>>

fmVars == <<fm_pc, fm_chunks, db, fm_concepts, fm_task, fm_log>>

vars == <<cbVars, mpVars, rkVars, rtVars, plVars, gqVars, fmVars>>

\* What the actions of one component leave alone.
notCb == <<mpVars, rkVars, rtVars, plVars, gqVars, fmVars>>

notMp == <<cbVars, rkVars, rtVars, plVars, gqVars, fmVars>>

notRk == <<cbVars, mpVars, rtVars, plVars, gqVars, fmVars>>

notRt == <<cbVars, mpVars, rkVars, plVars, gqVars, fmVars>>

notGq == <<cbVars, mpVars, rkVars, rtVars, plVars, fmVars>>

notFm == <<cbVars, mpVars, rkVars, rtVars, plVars, gqVars>>

\* ----------------------------------------------------------------- helpers
Min(a, b) == IF a < b THEN a ELSE b

Max(a, b) == IF a > b THEN a ELSE b

\* math.ceil(n / 2)
CeilHalf(n) == (n + 1) \div 2

\* A text of n ordinary tokens.
Words(n) == [j \in 1..n |-> "w"]

\* The token of the separator "\n\n".
SepToken == "\n\n"

\* Mutant of Join: every piece is followed by the separator.
RECURSIVE JoinTrailing(_)
JoinTrailing(pieces) ==
  IF pieces = <<>> THEN <<>>
  ELSE pieces[1] \o <<SepToken>> \o JoinTrailing(Tail(pieces))

\* "\n\n".join(pieces)
RECURSIVE Join(_)
Join(pieces) ==
  IF pieces = <<>> THEN <<>>
  ELSE IF Len(pieces) = 1 THEN pieces[1]
  ELSE pieces[1] \o <<SepToken>> \o Join(Tail(pieces))

\* TokenCounter.count_tokens
count_tokens(text) == Len(text)

\* Mutant of Slice: the whole list, whatever the bounds.
SliceWhole(s, i, j) == s

\* s[i:j] of Python, i and j 0-based
Slice(s, i, j) == SubSeq(s, i + 1, Min(j, Len(s)))

\* ------------------------------------------------------------ LLMInvoke
\* The text of f"Error processing query: {str(e)}" for the message str(e)
ErrorText(e) == <<"Error", "processing", "query", ":">> \o e

\* What model.generate_content does on one call: it returns one of `texts`, or
\* raises an exception e (text is then str(e)).
GenOutcomes(texts) ==
  {[ok |-> TRUE, text |-> t] : t \in texts} \cup {[ok |-> FALSE, text |-> <<"e">>]}

\* LLMInvoke.llm_response: the exception of a failed call is caught and turned
\* into an answer; the method itself does not raise.
llm_response(outcome) ==
  IF outcome.ok THEN [raised |-> FALSE, answer |-> outcome.text]
  ELSE [raised |-> FALSE, answer |-> ErrorText(outcome.text)]

\* ------------------------------------------------------- ConceptCombiner
\* The texts a combine call may return.
CombineTexts == {Words(n) : n \in (0..MaxRespTokens) \cup {50}}

\* batch_size = max(1, math.ceil(len(current_sets) / 2))
batch_size(n) == Max(1, CeilHalf(n))

\* Mutant of WithinBudget: the budget is tested on each piece, not on the join.
WithinBudgetPerPiece(sets, budget) ==
  \A j \in 1..Len(sets) : count_tokens(sets[j]) <= budget

\* total_tokens <= self.max_tokens, the loop's exit test
WithinBudget(sets, budget) == count_tokens(Join(sets)) <= budget

\* The inputs of the general runs: up to MaxBlobs blobs of up to MaxBlobTokens tokens.
BlobLists ==
  UNION {[1..n -> {Words(k) : k \in 0..MaxBlobTokens}] : n \in 0..MaxBlobs}

\* The end-to-end scenario: 4 blobs of 50 tokens under a budget of 80.
ScenarioBlobs == [j \in 1..4 |-> Words(50)]

CombinerInputs ==
  {[list |-> l, budget |-> b] : l \in BlobLists, b \in 0..MaxBudget}
    \cup {[list |-> ScenarioBlobs, budget |-> 80]}

CombinerIdle ==
  /\ cb_pc = "idle"
  /\ concepts_list = <<>>
  /\ max_tokens = 0
  /\ current_sets = <<>>
  /\ new_sets = <<>>
  /\ cb_i = 0
  /\ cb_passes = 0
  /\ cb_trace = <<>>
  /\ cb_calls = 0
  /\ cb_oversize = FALSE
  /\ cb_result = <<>>
  /\ cb_genok = <<>>
  /\ cb_batches = <<>>
  /\ cb_again = FALSE
  /\ cb_first = <<>>

\* combine_concepts is entered: current_sets = concepts_list.copy()
CombinerStart ==
  \E inp \in CombinerInputs :
    /\ cb_pc = "check"
    /\ concepts_list = inp.list
    /\ max_tokens = inp.budget
    /\ current_sets = inp.list
    /\ new_sets = <<>>
    /\ cb_i = 0
    /\ cb_passes = 0
    /\ cb_trace = <<Len(inp.list)>>
    /\ cb_calls = 0
    /\ cb_oversize = FALSE
    /\ cb_result = <<>>
    /\ cb_genok = <<>>
    /\ cb_batches = <<>>
    /\ cb_again = FALSE
    /\ cb_first = <<>>

\* Mutant of CombineCheck: the budget is tested only after a first pass.
CombineCheckAfterPass ==
  /\ cb_pc = "check"
  /\ IF cb_passes > 0 /\ WithinBudget(current_sets, max_tokens)
     THEN /\ cb_pc' = "done"
          /\ cb_result' = Join(current_sets)
          /\ UNCHANGED <<new_sets, cb_i, cb_genok, cb_batches>>
     ELSE /\ cb_pc' = "batch"
          /\ new_sets' = <<>>
          /\ cb_genok' = <<>>
          /\ cb_batches' = <<>>
          /\ cb_i' = 0
          /\ UNCHANGED cb_result
  /\ UNCHANGED <<concepts_list, max_tokens, current_sets, cb_passes, cb_trace,
                 cb_calls, cb_oversize, cb_again, cb_first>>
  /\ UNCHANGED notCb

\* The head of the while loop: join, count, and either leave the loop and
\* return the joined text or start a pass.
CombineCheck ==
  /\ cb_pc = "check"
  /\ IF WithinBudget(current_sets, max_tokens)
     THEN /\ cb_pc' = "done"
          /\ cb_result' = Join(current_sets)
          /\ UNCHANGED <<new_sets, cb_i, cb_genok, cb_batches>>
     ELSE /\ cb_pc' = "batch"
          /\ new_sets' = <<>>
          /\ cb_genok' = <<>>
          /\ cb_batches' = <<>>
          /\ cb_i' = 0
          /\ UNCHANGED cb_result
  /\ UNCHANGED <<concepts_list, max_tokens, current_sets, cb_passes, cb_trace,
                 cb_calls, cb_oversize, cb_again, cb_first>>
  /\ UNCHANGED notCb

\* One iteration of the for loop: one generation call for the batch at i.
CombineBatch ==
  /\ cb_pc = "batch"
  /\ cb_i < Len(current_sets)
  /\ \E outcome \in GenOutcomes(CombineTexts) :
       LET bs == batch_size(Len(current_sets))
           batch == Slice(current_sets, cb_i, cb_i + bs)
           result == llm_response(outcome)
       IN /\ batch # <<>>
          /\ new_sets' = Append(new_sets, result.answer)
          /\ cb_genok' = Append(cb_genok, outcome.ok)
          /\ cb_batches' = Append(cb_batches, [items |-> batch, answer |-> result.answer])
          /\ cb_i' = cb_i + bs
          /\ cb_oversize' = (cb_oversize \/ count_tokens(result.answer) > max_tokens)
  /\ cb_calls' = Min(cb_calls + 1, MaxCalls)
  /\ UNCHANGED <<cb_pc, concepts_list, max_tokens, current_sets, cb_passes,
                 cb_trace, cb_result, cb_again, cb_first>>
  /\ UNCHANGED notCb

\* Mutant of CombinePassEnd: the caller's list is overwritten in place
\* (concepts_list[:] = new_sets) instead of the local name being rebound.
CombinePassEndInPlace ==
  /\ cb_pc = "batch"
  /\ cb_i >= Len(current_sets)
  /\ current_sets' = new_sets
  /\ concepts_list' = new_sets
  /\ cb_pc' = "check"
  /\ cb_trace' = IF cb_passes < MaxPasses THEN Append(cb_trace, Len(new_sets))
                 ELSE cb_trace
  /\ cb_passes' = Min(cb_passes + 1, MaxPasses)
  /\ cb_batches' = <<>>
  /\ UNCHANGED <<max_tokens, new_sets, cb_i, cb_calls,
                 cb_oversize, cb_result, cb_genok, cb_again, cb_first>>
  /\ UNCHANGED notCb

\* The for loop is exhausted: current_sets = new_sets.
CombinePassEnd ==
  /\ cb_pc = "batch"
  /\ cb_i >= Len(current_sets)
  /\ current_sets' = new_sets
  /\ cb_pc' = "check"
  /\ cb_trace' = IF cb_passes < MaxPasses THEN Append(cb_trace, Len(new_sets))
                 ELSE cb_trace
  /\ cb_passes' = Min(cb_passes + 1, MaxPasses)
  /\ cb_batches' = <<>>
  /\ UNCHANGED <<concepts_list, max_tokens, new_sets, cb_i, cb_calls,
                 cb_oversize, cb_result, cb_genok, cb_again, cb_first>>
  /\ UNCHANGED notCb

\* The caller hands the returned text back: combine_concepts([text]) on the
\* same combiner, so with the same max_tokens.
CombineReapply ==
  /\ cb_pc = "done"
  /\ ~cb_again
  /\ cb_again' = TRUE
  /\ cb_first' = cb_result
  /\ concepts_list' = <<cb_result>>
  /\ current_sets' = <<cb_result>>
  /\ cb_pc' = "check"
  /\ new_sets' = <<>>
  /\ cb_genok' = <<>>
  /\ cb_batches' = <<>>
  /\ cb_i' = 0
  /\ cb_passes' = 0
  /\ cb_trace' = <<1>>
  /\ cb_calls' = 0
  /\ cb_oversize' = FALSE
  /\ cb_result' = <<>>
  /\ UNCHANGED max_tokens
  /\ UNCHANGED notCb

\* --------------------------------------------------------- ConceptMapper
\* None of Python, in the shape of what process_chunk returns.
None == [is_none |-> TRUE, chunk_source |-> "", concepts |-> <<>>]

\* bool(result): None is falsy, a dictionary with keys is truthy.
Truthy(result) == ~result.is_none

\* The texts an extraction call may return.
MapTexts == {Words(n) : n \in 0..1}

\* The chunks the Chunker hands over: Documents with the metadata of the merged
\* document.
ChunkLists ==
  {[j \in 1..n |-> [page_content |-> Words(j), source |-> "merged"]] : n \in 0..MaxChunks}

\* ConceptMapper.process_chunk: the dictionary of the chunk, or None when the
\* body raised.
process_chunk(chunk, outcome) ==
  LET result == llm_response(outcome)
  IN IF result.raised THEN None
     ELSE [is_none |-> FALSE, chunk_source |-> chunk.source, concepts |-> result.answer]

MapperIdle ==
  /\ mp_pc = "idle"
  /\ chunks = <<>>
  /\ max_workers = 0
  /\ mp_task = <<>>
  /\ mp_future = <<>>
  /\ mp_genok = <<>>
  /\ mp_calls = <<>>
  /\ mp_yielded = {}
  /\ concepts = <<>>
  /\ mp_origin = <<>>
  /\ mp_output = <<>>

\* extract is entered: every chunk is submitted to the pool.
MapperStart ==
  \E cs \in ChunkLists, w \in (1..MaxWorkers) \cup {DefaultMaxWorkers} :
    /\ mp_pc = "running"
    /\ chunks = cs
    /\ max_workers = w
    /\ mp_task = [j \in 1..Len(cs) |-> "queued"]
    /\ mp_future = [j \in 1..Len(cs) |-> None]
    /\ mp_genok = [j \in 1..Len(cs) |-> FALSE]
    /\ mp_calls = [j \in 1..Len(cs) |-> 0]
    /\ mp_yielded = {}
    /\ concepts = <<>>
    /\ mp_origin = <<>>
    /\ mp_output = <<>>

Running == {j \in 1..Len(chunks) : mp_task[j] = "running"}

Queued == {j \in 1..Len(chunks) : mp_task[j] = "queued"}

\* Mutant of MapTaskStart: the pool starts a task whatever the number of
\* tasks its workers are running.
MapTaskStartUnbounded ==
  /\ mp_pc = "running"
  /\ Queued # {}
  /\ LET j == CHOOSE q \in Queued : \A r \in Queued : q <= r
     IN mp_task' = [mp_task EXCEPT ![j] = "running"]
  /\ UNCHANGED <<mp_pc, chunks, max_workers, mp_future, mp_genok, mp_calls, mp_yielded,
                 concepts, mp_origin, mp_output>>
  /\ UNCHANGED notMp

\* A free worker of the pool takes the oldest queued task.
MapTaskStart ==
  /\ mp_pc = "running"
  /\ Queued # {}
  /\ Cardinality(Running) < max_workers
  /\ LET j == CHOOSE q \in Queued : \A r \in Queued : q <= r
     IN mp_task' = [mp_task EXCEPT ![j] = "running"]
  /\ UNCHANGED <<mp_pc, chunks, max_workers, mp_future, mp_genok, mp_calls, mp_yielded,
                 concepts, mp_origin, mp_output>>
  /\ UNCHANGED notMp

\* A worker runs process_chunk to its end: one generation call.
MapTaskFinish ==
  /\ mp_pc = "running"
  /\ \E j \in Running, outcome \in GenOutcomes(MapTexts) :
       /\ mp_task' = [mp_task EXCEPT ![j] = "finished"]
       /\ mp_future' = [mp_future EXCEPT ![j] = process_chunk(chunks[j], outcome)]
       /\ mp_genok' = [mp_genok EXCEPT ![j] = outcome.ok]
       /\ mp_calls' = [mp_calls EXCEPT ![j] = @ + 1]
  /\ UNCHANGED <<mp_pc, chunks, max_workers, mp_yielded, concepts, mp_origin,
                 mp_output>>
  /\ UNCHANGED notMp

\* Mutant of MapCollect: a yielded future stays among those to be yielded.
MapCollectDup ==
  /\ mp_pc = "running"
  /\ \E j \in 1..Len(chunks) :
       /\ mp_task[j] = "finished"
       /\ j \notin mp_yielded
       /\ LET result == mp_future[j]
          IN IF Truthy(result)
             THEN /\ concepts' = Append(concepts, result)
                  /\ mp_origin' = Append(mp_origin, j)
             ELSE UNCHANGED <<concepts, mp_origin>>
  /\ UNCHANGED <<mp_pc, chunks, max_workers, mp_task, mp_future, mp_genok, mp_calls,
                 mp_yielded, mp_output>>
  /\ UNCHANGED notMp

\* One iteration of the loop over as_completed: a finished future is yielded
\* and its result appended when it is truthy.
MapCollect ==
  /\ mp_pc = "running"
  /\ \E j \in 1..Len(chunks) :
       /\ mp_task[j] = "finished"
       /\ j \notin mp_yielded
       /\ mp_yielded' = mp_yielded \cup {j}
       /\ LET result == mp_future[j]
          IN IF Truthy(result)
             THEN /\ concepts' = Append(concepts, result)
                  /\ mp_origin' = Append(mp_origin, j)
             ELSE UNCHANGED <<concepts, mp_origin>>
  /\ UNCHANGED <<mp_pc, chunks, max_workers, mp_task, mp_future, mp_genok, mp_calls,
                 mp_output>>
  /\ UNCHANGED notMp

\* Every future has been yielded: return [c['concepts'] for c in concepts].
MapReturn ==
  /\ mp_pc = "running"
  /\ mp_yielded = 1..Len(chunks)
  /\ mp_pc' = "returned"
  /\ mp_output' = [j \in 1..Len(concepts) |-> concepts[j].concepts]
  /\ UNCHANGED <<chunks, max_workers, mp_task, mp_future, mp_genok, mp_calls, mp_yielded,
                 concepts, mp_origin>>
  /\ UNCHANGED notMp

MapperNext == MapTaskStart \/ MapTaskFinish \/ MapCollect \/ MapReturn

\* --------------------------------------------------------- ConceptRanker
\* A response is the sequence of its characters.
IsDigit(c) == c \in {"0", "1", "2", "3", "4", "5", "6", "7", "8", "9"}

\* \s
IsSpace(c) == c \in {" ", SepToken}

\* [0-9,\s], the characters the bracketed group may hold
InGroupClass(c) == IsDigit(c) \/ c = "," \/ IsSpace(c)

\* \w: the characters between which \b finds no boundary
IsWordChar(c) == c \notin {"[", "]", ",", ":", " ", SepToken}

\* The last index of the run of group characters that starts at p (p - 1 when
\* s[p] is none).
RECURSIVE GroupRunEnd(_, _)
GroupRunEnd(s, p) ==
  IF p <= Len(s) /\ InGroupClass(s[p]) THEN GroupRunEnd(s, p + 1) ELSE p - 1

\* r'\[([0-9,\s]+)\]' matches at p
BracketMatchAt(s, p) ==
  /\ s[p] = "["
  /\ LET q == GroupRunEnd(s, p + 1)
     IN q >= p + 1 /\ q + 1 <= Len(s) /\ s[q + 1] = "]"

\* re.search(bracket_pattern, ranking_result): where the leftmost match starts,
\* 0 when there is none
BracketSearch(s) ==
  LET hits == {p \in 1..Len(s) : BracketMatchAt(s, p)}
  IN IF hits = {} THEN 0 ELSE CHOOSE p \in hits : \A q \in hits : p <= q

\* numbers_str.split(',')
RECURSIVE SplitComma(_)
SplitComma(s) ==
  LET commas == {p \in 1..Len(s) : s[p] = ","}
  IN IF commas = {} THEN <<s>>
     ELSE LET p == CHOOSE c \in commas : \A d \in commas : c <= d
          IN <<SubSeq(s, 1, p - 1)>> \o SplitComma(SubSeq(s, p + 1, Len(s)))

\* x.strip()
RECURSIVE Strip(_)
Strip(x) ==
  IF x = <<>> THEN x
  ELSE IF IsSpace(x[1]) THEN Strip(Tail(x))
  ELSE IF IsSpace(x[Len(x)]) THEN Strip(SubSeq(x, 1, Len(x) - 1))
  ELSE x

\* x.isdigit()
IsDigitStr(x) == x # <<>> /\ \A p \in 1..Len(x) : IsDigit(x[p])

DigitVal(c) ==
  CASE c = "0" -> 0 [] c = "1" -> 1 [] c = "2" -> 2 [] c = "3" -> 3 [] c = "4" -> 4
    [] c = "5" -> 5 [] c = "6" -> 6 [] c = "7" -> 7 [] c = "8" -> 8 [] c = "9" -> 9

\* int(x) for a string of digits
RECURSIVE IntOf(_)
IntOf(x) ==
  IF x = <<>> THEN 0 ELSE 10 * IntOf(SubSeq(x, 1, Len(x) - 1)) + DigitVal(x[Len(x)])

\* if x.strip().isdigit(), the filter of the comprehension
KeepPiece(x) == IsDigitStr(Strip(x))

\* The last index of the run of digits that starts at p.
RECURSIVE DigitRunEnd(_, _)
DigitRunEnd(s, p) ==
  IF p + 1 <= Len(s) /\ IsDigit(s[p + 1]) THEN DigitRunEnd(s, p + 1) ELSE p

\* re.findall(r'\b\d+\b', ranking_result) from index p on: the runs of digits
\* with no word character on either side
RECURSIVE FindNumbers(_, _)
FindNumbers(s, p) ==
  IF p > Len(s) THEN <<>>
  ELSE IF ~IsDigit(s[p]) THEN FindNumbers(s, p + 1)
  ELSE LET q == DigitRunEnd(s, p)
           left == p = 1 \/ ~IsWordChar(s[p - 1])
           right == q = Len(s) \/ ~IsWordChar(s[q + 1])
       IN IF left /\ right
          THEN <<SubSeq(s, p, q)>> \o FindNumbers(s, q + 1)
          ELSE FindNumbers(s, q + 1)

\* ConceptRanker.parse_rankings: the list, and whether an int() raised
parse_rankings(ranking_result) ==
  LET m == BracketSearch(ranking_result)
  IN IF m # 0
     THEN LET numbers_str == SubSeq(ranking_result, m + 1, GroupRunEnd(ranking_result, m + 1))
              pieces == SelectSeq(SplitComma(numbers_str), KeepPiece)
          IN [raised |-> \E j \in 1..Len(pieces) : ~IsDigitStr(Strip(pieces[j])),
              rankings |-> [j \in 1..Len(pieces) |-> IntOf(Strip(pieces[j]))]]
     ELSE LET numbers == FindNumbers(ranking_result, 1)
          IN [raised |-> FALSE, rankings |-> [j \in 1..Len(numbers) |-> IntOf(numbers[j])]]

\* list(range(1, len(dict_concepts) + 1))
IdentityOrder(n) == [j \in 1..n |-> j]

\* Mutant of RankingsInvalid: only a list that is too short is replaced.
RankingsTooShort(rankings, n) == Len(rankings) < n

\* len(rankings) != len(dict_concepts), the validation of rank
RankingsInvalid(rankings, n) == Len(rankings) # n

\* Mutant of rank: without the test of the empty list, the call is issued for
\* every input.
rank_always_calls(records, outcome) ==
  LET result == llm_response(outcome)
      parsed == parse_rankings(result.answer)
  IN [raised |-> result.raised \/ parsed.raised,
      called |-> TRUE,
      answer |-> result.answer,
      parsed |-> parsed.rankings,
      rankings |-> IF RankingsInvalid(parsed.rankings, Len(records))
                   THEN IdentityOrder(Len(records))
                   ELSE parsed.rankings]

\* ConceptRanker.rank: answer and parsed are what the call saw on the way
rank(records, outcome) ==
  IF records = <<>>
  THEN [raised |-> FALSE, called |-> FALSE, answer |-> <<>>, parsed |-> <<>>,
        rankings |-> <<>>]
  ELSE LET result == llm_response(outcome)
           parsed == parse_rankings(result.answer)
       IN [raised |-> result.raised \/ parsed.raised,
           called |-> TRUE,
           answer |-> result.answer,
           parsed |-> parsed.rankings,
           rankings |-> IF RankingsInvalid(parsed.rankings, Len(records))
                        THEN IdentityOrder(Len(records))
                        ELSE parsed.rankings]

\* Mutant of Zip: every ranking but the first is paired with the record before
\* its own.
ZipShifted(rankings, records) ==
  [j \in 1..Min(Len(rankings), Len(records)) |-> <<rankings[j], records[Max(j - 1, 1)]>>]

\* list(zip(rankings, dict_concepts)): as long as the shorter of the two
Zip(rankings, records) ==
  [j \in 1..Min(Len(rankings), Len(records)) |-> <<rankings[j], records[j]>>]

\* One pair put into a sorted list after every pair whose key is not greater.
RECURSIVE InsertByKey(_, _)
InsertByKey(sorted, pair) ==
  IF sorted = <<>> THEN <<pair>>
  ELSE IF sorted[1][1] <= pair[1] THEN <<sorted[1]>> \o InsertByKey(Tail(sorted), pair)
  ELSE <<pair>> \o sorted

\* Mutant of SortByKey: a sort that is not stable (a pair goes before the pairs
\* of equal key).
RECURSIVE InsertBeforeEqual(_, _)
InsertBeforeEqual(sorted, pair) ==
  IF sorted = <<>> THEN <<pair>>
  ELSE IF sorted[1][1] < pair[1] THEN <<sorted[1]>> \o InsertBeforeEqual(Tail(sorted), pair)
  ELSE <<pair>> \o sorted

RECURSIVE SortByKeyUnstable(_)
SortByKeyUnstable(pairs) ==
  IF pairs = <<>> THEN <<>>
  ELSE InsertBeforeEqual(SortByKeyUnstable(SubSeq(pairs, 1, Len(pairs) - 1)), pairs[Len(pairs)])

\* ranked_pairs.sort(key=lambda x: x[0]): a stable sort, ascending by key
RECURSIVE SortByKey(_)
SortByKey(pairs) ==
  IF pairs = <<>> THEN <<>>
  ELSE InsertByKey(SortByKey(SubSeq(pairs, 1, Len(pairs) - 1)), pairs[Len(pairs)])

\* ConceptRanker.get_ranked_concepts
get_ranked_concepts(records, outcome) ==
  LET r == rank(records, outcome)
      ranked_pairs == SortByKey(Zip(r.rankings, records))
  IN [raised |-> r.raised, called |-> r.called, answer |-> r.answer, parsed |-> r.parsed,
      rankings |-> r.rankings,
      ranked |-> [j \in 1..Len(ranked_pairs) |-> ranked_pairs[j][2]]]

\* The records the Reducer hands over.
ConceptNames == <<"X", "Y", "Z", "U", "V">>

RecordLists ==
  {[j \in 1..n |-> [concept |-> ConceptNames[j], summary |-> "s"]] : n \in 0..MaxRecords}

\* The characters of the enumerated responses.
RespChars == {"[", "]", ",", " ", "x", "1", "2"}

\* Responses of the shapes the prompt asks for and the parser falls back to.
SampleResponses ==
  { <<"[", "2", ",", "1", ",", "3", "]">>,
    <<"[", "1", ",", "1", ",", "3", "]">>,
    <<"[", "1", ",", " ", "1", "]">>,
    <<"[", "2", ",", " ", "1", "]">>,
    <<"x", ":", " ", "[", "3", ",", " ", "1", ",", " ", "2", "]">>,
    <<"2", " ", "1", " ", "3">>,
    <<"[", "2", " ", "1", "]">>,
    <<"1", "2", " ", "x", "1", " ", "3">> }

\* Every response of up to MaxRespLen characters, and the samples.
RankResponses ==
  UNION {[1..n -> RespChars] : n \in 0..MaxRespLen} \cup SampleResponses

RankerIdle ==
  /\ rk_pc = "idle"
  /\ dict_concepts = <<>>
  /\ rk_answer = <<>>
  /\ rk_parsed = <<>>
  /\ rk_rankings = <<>>
  /\ rk_raised = FALSE
  /\ rk_calls = 0
  /\ rk_ranked = <<>>

\* A ranker holding the records of one run.
RankerStart ==
  \E records \in RecordLists :
    /\ rk_pc = "ready"
    /\ dict_concepts = records
    /\ rk_answer = <<>>
    /\ rk_parsed = <<>>
    /\ rk_rankings = <<>>
    /\ rk_raised = FALSE
    /\ rk_calls = 0
    /\ rk_ranked = <<>>

\* A call of rank(dict_concepts).
RankerRank ==
  /\ rk_pc = "ready"
  /\ \E outcome \in GenOutcomes(RankResponses) :
       LET r == rank(dict_concepts, outcome)
       IN /\ rk_answer' = r.answer
          /\ rk_parsed' = r.parsed
          /\ rk_rankings' = r.rankings
          /\ rk_raised' = r.raised
          /\ rk_calls' = rk_calls + (IF r.called THEN 1 ELSE 0)
  /\ rk_pc' = "ranked"
  /\ UNCHANGED <<dict_concepts, rk_ranked>>
  /\ UNCHANGED notRk

\* A call of get_ranked_concepts(dict_concepts).
RankerGetRanked ==
  /\ rk_pc = "ready"
  /\ \E outcome \in GenOutcomes(RankResponses) :
       LET r == get_ranked_concepts(dict_concepts, outcome)
       IN /\ rk_answer' = r.answer
          /\ rk_parsed' = r.parsed
          /\ rk_rankings' = r.rankings
          /\ rk_raised' = r.raised
          /\ rk_calls' = rk_calls + (IF r.called THEN 1 ELSE 0)
          /\ rk_ranked' = r.ranked
  /\ rk_pc' = "sorted"
  /\ UNCHANGED dict_concepts
  /\ UNCHANGED notRk

RankerNext == RankerRank \/ RankerGetRanked

\* ------------------------------------------------------ PassageExtractor
\* A fused score is a fraction <<numerator, denominator>> in lowest terms: the
\* float sums of terms 1/(k + rank + 1) that the code compares in these runs
\* are equal, or ordered, exactly as these fractions are.
RECURSIVE Gcd(_, _)
Gcd(a, b) == IF b = 0 THEN a ELSE Gcd(b, a % b)

Frac(n, d) == LET g == Gcd(n, d) IN <<n \div g, d \div g>>

\* The least common denominator of two fractions.
CommonDen(x, y) == (x[2] \div Gcd(x[2], y[2])) * y[2]

\* The numerator of x over the denominator d, a multiple of its own.
NumOver(x, d) == x[1] * (d \div x[2])

FracAdd(x, y) ==
  LET d == CommonDen(x, y) IN Frac(NumOver(x, d) + NumOver(y, d), d)

FracLess(x, y) ==
  LET d == CommonDen(x, y) IN NumOver(x, d) < NumOver(y, d)

\* The 0.0 of defaultdict(float)
FracZero == <<0, 1>>

\* The passages: Documents with a text and with metadata that may hold an "id"
\* (doc.metadata.get("id") is None when it does not).
Passages == {"p1", "p2", "p3"}

\* The index create_new_faiss_index builds from the chunks of
\* Chunker.split_documents: the metadata of a chunk is {"source": "merged"}, the
\* uuid of a chunk is its docstore key and is not put into its metadata, so
\* doc.metadata.get("id") is None for every passage.
IngestedIndex == {[page_content |-> t, id |-> "None"] : t \in Passages}

\* The indexes of the runs: the ingested one, one whose passages each carry an
\* id of their own in their metadata, one where two passages carry the same id.
Indexes ==
  { IngestedIndex,
    {[page_content |-> t, id |-> t] : t \in Passages},
    {[page_content |-> t, id |-> IF t = "p3" THEN "b" ELSE "a"] : t \in Passages} }

\* doc.metadata.get("id")
DocId(doc) == doc.id

\* The distances a search may report.
Distances == {1, 2}

IsNonDecreasing(ds) == \A a \in 1..(Len(ds) - 1) : ds[a] <= ds[a + 1]

\* What one search over `index` with k may return: up to k distinct documents,
\* nearest first, each with its distance.
SearchResults(index, k) ==
  UNION { {r \in [1..n -> index \X Distances] :
             /\ \A a, b \in 1..n : a # b => r[a][1] # r[b][1]
             /\ IsNonDecreasing([a \in 1..n |-> r[a][2]])}
          : n \in 0..Min(k, Cardinality(index)) }

\* An index of more passages than the default k, each with an id of its own,
\* in the order of their texts.
SixPassages == <<"p1", "p2", "p3", "p4", "p5", "p6">>

SixIndex == {[page_content |-> SixPassages[j], id |-> SixPassages[j]] : j \in 1..Len(SixPassages)}

\* What one search over SixIndex with k may return in these runs: up to k
\* passages that follow one another in the order of their texts, ascending or
\* descending, all at the same distance.
SixSearchResults(k) ==
  LET n == Len(SixPassages)
      doc(j) == [page_content |-> SixPassages[j], id |-> SixPassages[j]]
      windows == {w \in (1..n) \X (0..Min(k, n)) : w[1] + w[2] - 1 <= n}
  IN UNION { { [a \in 1..w[2] |-> <<doc(w[1] + a - 1), 1>>],
               [a \in 1..w[2] |-> <<doc(w[1] + w[2] - a), 1>>] }
             : w \in windows }

\* The results of one search over the index of the run.
Searches(index, k) ==
  IF index = SixIndex THEN SixSearchResults(k) ELSE SearchResults(index, k)

\* faiss_results.append((doc, float(-d))) and [(doc, -score) for doc, score in sim_results]
Negated(r) == [a \in 1..Len(r) |-> <<r[a][1], 0 - r[a][2]>>]

\* Where doc_id is in a dictionary kept as the list of its items, 0 when absent.
KeyIndex(items, doc_id) ==
  LET hits == {a \in 1..Len(items) : items[a][1] = doc_id}
  IN IF hits = {} THEN 0 ELSE CHOOSE a \in hits : TRUE

\* Mutant of Contribution: the rank is not shifted to 1-based.
ContributionZeroBased(rnk) == Frac(1, RrfK + rnk)

\* 1 / (k + rank + 1)
Contribution(rnk) == Frac(1, RrfK + rnk + 1)

\* Mutant of ScoresAdd: the contribution is stored, not added (= for +=).
ScoresAssign(items, doc_id, rnk) ==
  LET a == KeyIndex(items, doc_id)
  IN IF a = 0 THEN Append(items, <<doc_id, Contribution(rnk)>>)
     ELSE [items EXCEPT ![a] = <<doc_id, Contribution(rnk)>>]

\* scores[doc_id] += 1 / (k + rank + 1), scores a defaultdict(float)
ScoresAdd(items, doc_id, rnk) ==
  LET a == KeyIndex(items, doc_id)
  IN IF a = 0 THEN Append(items, <<doc_id, FracAdd(FracZero, Contribution(rnk))>>)
     ELSE [items EXCEPT ![a] = <<doc_id, FracAdd(items[a][2], Contribution(rnk))>>]

\* doc_mapping[doc_id] = doc
MappingPut(items, doc_id, doc) ==
  LET a == KeyIndex(items, doc_id)
  IN IF a = 0 THEN Append(items, <<doc_id, doc>>)
     ELSE [items EXCEPT ![a] = <<doc_id, doc>>]

\* One item put into a list sorted descending, after every item whose score is
\* not smaller.
RECURSIVE InsertDescending(_, _)
InsertDescending(sorted, item) ==
  IF sorted = <<>> THEN <<item>>
  ELSE IF ~FracLess(sorted[1][2], item[2])
       THEN <<sorted[1]>> \o InsertDescending(Tail(sorted), item)
  ELSE <<item>> \o sorted

\* Mutant of SortedDescending: an ascending stable sort, reversed, which turns
\* the order of the items of equal score around.
RECURSIVE InsertBeforeNotGreater(_, _)
InsertBeforeNotGreater(sorted, item) ==
  IF sorted = <<>> THEN <<item>>
  ELSE IF FracLess(item[2], sorted[1][2])
       THEN <<sorted[1]>> \o InsertBeforeNotGreater(Tail(sorted), item)
  ELSE <<item>> \o sorted

RECURSIVE SortedAscendingReversed(_)
SortedAscendingReversed(items) ==
  IF items = <<>> THEN <<>>
  ELSE InsertBeforeNotGreater(SortedAscendingReversed(SubSeq(items, 1, Len(items) - 1)),
                              items[Len(items)])

\* sorted(scores, key=scores.get, reverse=True): stable, over the keys in
\* insertion order
RECURSIVE SortedDescending(_)
SortedDescending(items) ==
  IF items = <<>> THEN <<>>
  ELSE InsertDescending(SortedDescending(SubSeq(items, 1, Len(items) - 1)), items[Len(items)])

\* [(doc_mapping[doc_id], scores[doc_id]) for doc_id in sorted_doc_ids]
FusedResults(score_items, mapping_items) ==
  LET sorted_doc_ids == SortedDescending(score_items)
  IN [a \in 1..Len(sorted_doc_ids) |->
        <<mapping_items[KeyIndex(mapping_items, sorted_doc_ids[a][1])][2], sorted_doc_ids[a][2]>>]

\* The two loops of reciprocal_rank_fusion from entry rnk of list l on, acc
\* holding the dictionaries scores (s) and doc_mapping (m).
RECURSIVE FuseLoops(_, _, _, _)
FuseLoops(lists, l, rnk, acc) ==
  IF l > Len(lists) THEN acc
  ELSE IF rnk < Len(lists[l])
  THEN LET doc == lists[l][rnk + 1][1]
       IN FuseLoops(lists, l, rnk + 1,
                    [s |-> ScoresAdd(acc.s, DocId(doc), rnk),
                     m |-> MappingPut(acc.m, DocId(doc), doc)])
  ELSE FuseLoops(lists, l + 1, 0, acc)

\* PassageExtractor.reciprocal_rank_fusion(results_lists), as one function
reciprocal_rank_fusion(lists) ==
  LET acc == FuseLoops(lists, 1, 0, [s |-> <<>>, m |-> <<>>])
  IN FusedResults(acc.s, acc.m)

\* fused_results[:k]
Truncate(fused, k) == SubSeq(fused, 1, Min(k, Len(fused)))

RetrieverIdle ==
  /\ rt_pc = "idle"
  /\ rt_index = {}
  /\ rt_k = 0
  /\ results_lists = <<>>
  /\ rt_pos = <<0, 0>>
  /\ scores = <<>>
  /\ doc_mapping = <<>>
  /\ rt_failed = FALSE
  /\ rt_result = <<>>
  /\ rt_via_extract = FALSE
  /\ rt_passages = <<>>

\* The calls of the runs: retrieve(query, k) with a k of its caller, or
\* extract(question), which calls retrieve(question) and so with the default k.
RetrieverCalls ==
  {[index |-> index, k |-> k, via_extract |-> FALSE] : index \in Indexes, k \in 1..MaxK}
    \cup {[index |-> index, k |-> DefaultK, via_extract |-> TRUE] :
            index \in Indexes \cup {SixIndex}}

\* retrieve(query, k) is entered: results_lists = []
RetrieverStart ==
  \E call \in RetrieverCalls :
    /\ rt_pc = "faiss"
    /\ rt_index = call.index
    /\ rt_k = call.k
    /\ results_lists = <<>>
    /\ rt_pos = <<0, 0>>
    /\ scores = <<>>
    /\ doc_mapping = <<>>
    /\ rt_failed = FALSE
    /\ rt_result = <<>>
    /\ rt_via_extract = call.via_extract
    /\ rt_passages = <<>>

\* The except clause of retrieve: the error is logged and [] returned.
RetrieveCatch ==
  /\ rt_pc' = "returned"
  /\ rt_failed' = TRUE
  /\ rt_result' = <<>>
  /\ UNCHANGED <<rt_index, rt_k, results_lists, rt_pos, scores, doc_mapping,
                 rt_via_extract, rt_passages>>

\* Method 1: embed_query and faiss_index.search; either may raise.
RetrieveFaiss ==
  /\ rt_pc = "faiss"
  /\ \/ \E r \in Searches(rt_index, rt_k) :
          /\ results_lists' = Append(results_lists, Negated(r))
          /\ rt_pc' = "sim"
          /\ UNCHANGED <<rt_index, rt_k, rt_pos, scores, doc_mapping, rt_failed, rt_result,
                         rt_via_extract, rt_passages>>
     \/ RetrieveCatch
  /\ UNCHANGED notRt

\* Method 2: similarity_search_with_score; it may raise. Then fusion starts.
RetrieveSimilarity ==
  /\ rt_pc = "sim"
  /\ \/ \E r \in Searches(rt_index, rt_k) :
          /\ results_lists' = Append(results_lists, Negated(r))
          /\ rt_pc' = "fuse"
          /\ rt_pos' = <<1, 0>>
          /\ scores' = <<>>
          /\ doc_mapping' = <<>>
          /\ UNCHANGED <<rt_index, rt_k, rt_failed, rt_result, rt_via_extract, rt_passages>>
     \/ RetrieveCatch
  /\ UNCHANGED notRt

\* Mutant of FuseStep: the contribution of an entry is taken at the rank
\* shifted by the method's score of the entry.
FuseStepScored ==
  /\ rt_pc = "fuse"
  /\ rt_pos[1] <= Len(results_lists)
  /\ LET results == results_lists[rt_pos[1]]
         rnk == rt_pos[2]
     IN IF rnk < Len(results)
        THEN LET doc == results[rnk + 1][1]
                 doc_id == DocId(doc)
             IN /\ scores' = ScoresAdd(scores, doc_id, rnk + (0 - results[rnk + 1][2]))
                /\ doc_mapping' = MappingPut(doc_mapping, doc_id, doc)
                /\ rt_pos' = <<rt_pos[1], rnk + 1>>
        ELSE /\ rt_pos' = <<rt_pos[1] + 1, 0>>
             /\ UNCHANGED <<scores, doc_mapping>>
  /\ UNCHANGED <<rt_pc, rt_index, rt_k, results_lists, rt_failed, rt_result,
                 rt_via_extract, rt_passages>>
  /\ UNCHANGED notRt

\* One iteration of the inner loop of reciprocal_rank_fusion, or the step to
\* the next list when the inner loop is exhausted.
FuseStep ==
  /\ rt_pc = "fuse"
  /\ rt_pos[1] <= Len(results_lists)
  /\ LET results == results_lists[rt_pos[1]]
         rnk == rt_pos[2]
     IN IF rnk < Len(results)
        THEN LET doc == results[rnk + 1][1]
                 doc_id == DocId(doc)
             IN /\ scores' = ScoresAdd(scores, doc_id, rnk)
                /\ doc_mapping' = MappingPut(doc_mapping, doc_id, doc)
                /\ rt_pos' = <<rt_pos[1], rnk + 1>>
        ELSE /\ rt_pos' = <<rt_pos[1] + 1, 0>>
             /\ UNCHANGED <<scores, doc_mapping>>
  /\ UNCHANGED <<rt_pc, rt_index, rt_k, results_lists, rt_failed, rt_result,
                 rt_via_extract, rt_passages>>
  /\ UNCHANGED notRt

\* The loops are done: sort the ids, build the fused list, return its first k.
FuseReturn ==
  /\ rt_pc = "fuse"
  /\ rt_pos[1] > Len(results_lists)
  /\ rt_result' = Truncate(FusedResults(scores, doc_mapping), rt_k)
  /\ rt_pc' = "returned"
  /\ UNCHANGED <<rt_index, rt_k, results_lists, rt_pos, scores, doc_mapping, rt_failed,
                 rt_via_extract, rt_passages>>
  /\ UNCHANGED notRt

\* Mutant of PassageTexts: the texts in the reverse of the order of the results.
PassageTextsReversed(results) ==
  [a \in 1..Len(results) |-> results[Len(results) + 1 - a][1].page_content]

\* [doc.page_content for doc, _ in results]
PassageTexts(results) == [a \in 1..Len(results) |-> results[a][1].page_content]

\* retrieve has returned to extract, which returns the texts of its results.
ExtractReturn ==
  /\ rt_pc = "returned"
  /\ rt_via_extract
  /\ rt_passages' = PassageTexts(rt_result)
  /\ rt_pc' = "extracted"
  /\ UNCHANGED <<rt_index, rt_k, results_lists, rt_pos, scores, doc_mapping, rt_failed,
                 rt_result, rt_via_extract>>
  /\ UNCHANGED notRt

RetrieverNext ==
  RetrieveFaiss \/ RetrieveSimilarity \/ FuseStep \/ FuseReturn \/ ExtractReturn

\* ------------------------------------------------------- ConceptPipeline
\* The chunks of a pipeline run.
MaxRunChunks == 2

RunChunkLists ==
  {[j \in 1..n |-> [page_content |-> Words(j), source |-> "merged"]] : n \in 0..MaxRunChunks}

\* The max_tokens of a pipeline: the small budgets, and one that an error text
\* and an empty answer fit in together.
RunBudgets == (0..MaxBudget) \cup {count_tokens(Join(<<ErrorText(<<"e">>), <<>>>>))}

\* ConceptReducer.reduce, the external collaborator: it turns the condensed text
\* into a list of {concept, summary} records, or fails.
ReduceOutcomes ==
  {[ok |-> TRUE, records |-> r] : r \in RecordLists} \cup {[ok |-> FALSE, records |-> <<>>]}

reduce(text, outcome) == [raised |-> ~outcome.ok, records |-> outcome.records]

\* The order of the statements of run: the stage that follows a stage.
StageAfter(stage) ==
  CASE stage = "Mapping" -> "Combining"
    [] stage = "Combining" -> "Reducing"
    [] stage = "Reducing" -> "Ranking"
    [] stage = "Ranking" -> "Done"

\* Mutant of run_except: the error is logged and not raised again.
run_except_swallow(stage) == [pc |-> "Done", raised |-> FALSE]

\* except Exception as e: logger.error(...); raise
run_except(stage) == [pc |-> "Failed", raised |-> TRUE]

PipelineIdle ==
  /\ pl_pc = "idle"
  /\ pl_stages = <<>>
  /\ concepts_map_list = <<>>
  /\ final_main_ideas = <<>>
  /\ reduced = <<>>
  /\ pl_rank_calls = 0
  /\ pl_rankings = <<>>
  /\ pl_rankings2 = <<>>
  /\ pl_ranked = <<>>
  /\ pl_genfail = {}
  /\ pl_reducer_failed = FALSE
  /\ pl_raised = FALSE
  /\ pl_returned = <<>>

\* The locals of a combine_concepts that is not running.
CombinerLocalsIdle ==
  /\ concepts_list = <<>>
  /\ current_sets = <<>>
  /\ new_sets = <<>>
  /\ cb_i = 0
  /\ cb_passes = 0
  /\ cb_trace = <<>>
  /\ cb_calls = 0
  /\ cb_oversize = FALSE
  /\ cb_result = <<>>
  /\ cb_genok = <<>>
  /\ cb_batches = <<>>
  /\ cb_again = FALSE
  /\ cb_first = <<>>

\* extract has returned: its locals are gone.
MapperLocalsReset ==
  /\ mp_task' = <<>>
  /\ mp_future' = <<>>
  /\ mp_genok' = <<>>
  /\ mp_calls' = <<>>
  /\ mp_yielded' = {}
  /\ concepts' = <<>>
  /\ mp_origin' = <<>>
  /\ mp_output' = <<>>

\* combine_concepts has returned: its locals are gone.
CombinerLocalsReset ==
  /\ concepts_list' = <<>>
  /\ current_sets' = <<>>
  /\ new_sets' = <<>>
  /\ cb_i' = 0
  /\ cb_passes' = 0
  /\ cb_trace' = <<>>
  /\ cb_calls' = 0
  /\ cb_oversize' = FALSE
  /\ cb_result' = <<>>
  /\ cb_genok' = <<>>
  /\ cb_batches' = <<>>
  /\ cb_again' = FALSE
  /\ cb_first' = <<>>

\* run(chunks) of a pipeline built with max_workers and max_tokens has entered
\* its first stage: mapper.extract(chunks) has submitted every chunk.
PipelineStart ==
  \E cs \in RunChunkLists, w \in 1..MaxWorkers, b \in RunBudgets :
    /\ pl_pc = "Mapping"
    /\ pl_stages = <<"Mapping">>
    /\ concepts_map_list = <<>>
    /\ final_main_ideas = <<>>
    /\ reduced = <<>>
    /\ pl_rank_calls = 0
    /\ pl_rankings = <<>>
    /\ pl_rankings2 = <<>>
    /\ pl_ranked = <<>>
    /\ pl_genfail = {}
    /\ pl_reducer_failed = FALSE
    /\ pl_raised = FALSE
    /\ pl_returned = <<>>
    /\ mp_pc = "running"
    /\ chunks = cs
    /\ max_workers = w
    /\ mp_task = [j \in 1..Len(cs) |-> "queued"]
    /\ mp_future = [j \in 1..Len(cs) |-> None]
    /\ mp_genok = [j \in 1..Len(cs) |-> FALSE]
    /\ mp_calls = [j \in 1..Len(cs) |-> 0]
    /\ mp_yielded = {}
    /\ concepts = <<>>
    /\ mp_origin = <<>>
    /\ mp_output = <<>>
    /\ cb_pc = "idle"
    /\ max_tokens = b
    /\ CombinerLocalsIdle

\* extract has returned: concepts_map_list is set and combine_concepts entered.
PipelineToCombining ==
  /\ pl_pc = "Mapping"
  /\ mp_pc = "returned"
  /\ pl_pc' = StageAfter(pl_pc)
  /\ pl_stages' = Append(pl_stages, pl_pc')
  /\ concepts_map_list' = mp_output
  /\ pl_genfail' = IF \E j \in 1..Len(chunks) : ~mp_genok[j] THEN pl_genfail \cup {pl_pc}
                   ELSE pl_genfail
  /\ mp_pc' = "idle"
  /\ MapperLocalsReset
  /\ UNCHANGED <<chunks, max_workers>>
  /\ cb_pc' = "check"
  /\ concepts_list' = mp_output
  /\ current_sets' = mp_output
  /\ cb_trace' = <<Len(mp_output)>>
  /\ UNCHANGED <<max_tokens, new_sets, cb_i, cb_passes, cb_calls, cb_oversize,
                 cb_result, cb_genok, cb_batches, cb_again, cb_first>>
  /\ UNCHANGED <<final_main_ideas, reduced, pl_rank_calls, pl_rankings, pl_rankings2,
                 pl_ranked, pl_reducer_failed, pl_raised, pl_returned>>
  /\ UNCHANGED <<rkVars, rtVars, gqVars, fmVars>>

\* combine_concepts has returned: final_main_ideas is set and reducer.reduce is
\* called.
PipelineToReducing ==
  /\ pl_pc = "Combining"
  /\ cb_pc = "done"
  /\ pl_pc' = StageAfter(pl_pc)
  /\ pl_stages' = Append(pl_stages, pl_pc')
  /\ final_main_ideas' = cb_result
  /\ pl_genfail' = IF \E j \in 1..Len(cb_genok) : ~cb_genok[j] THEN pl_genfail \cup {pl_pc}
                   ELSE pl_genfail
  /\ cb_pc' = "idle"
  /\ CombinerLocalsReset
  /\ UNCHANGED max_tokens
  /\ UNCHANGED <<concepts_map_list, reduced, pl_rank_calls, pl_rankings, pl_rankings2,
                 pl_ranked, pl_reducer_failed, pl_raised, pl_returned>>
  /\ UNCHANGED <<mpVars, rkVars, rtVars, gqVars, fmVars>>

\* reducer.reduce returns the records, or raises and the except clause of run
\* takes over.
PipelineReduce ==
  /\ pl_pc = "Reducing"
  /\ \E outcome \in ReduceOutcomes :
       LET r == reduce(final_main_ideas, outcome)
       IN IF r.raised
          THEN /\ pl_reducer_failed' = TRUE
               /\ pl_pc' = run_except(pl_pc).pc
               /\ pl_raised' = run_except(pl_pc).raised
               /\ UNCHANGED reduced
          ELSE /\ reduced' = r.records
               /\ pl_pc' = StageAfter(pl_pc)
               /\ UNCHANGED <<pl_reducer_failed, pl_raised>>
  /\ pl_stages' = Append(pl_stages, pl_pc')
  /\ UNCHANGED <<concepts_map_list, final_main_ideas, pl_rank_calls, pl_rankings,
                 pl_rankings2, pl_ranked, pl_genfail, pl_returned>>
  /\ UNCHANGED <<cbVars, mpVars, rkVars, rtVars, gqVars, fmVars>>

\* The responses of the ranking calls of a run.
RunRankResponses == SampleResponses

\* rankings = self.ranker.rank(reduced)
PipelineRank ==
  /\ pl_pc = "Ranking"
  /\ pl_rank_calls = 0
  /\ \E outcome \in GenOutcomes(RunRankResponses) :
       LET r == rank(reduced, outcome)
       IN /\ pl_genfail' = IF r.called /\ ~outcome.ok THEN pl_genfail \cup {pl_pc}
                           ELSE pl_genfail
          /\ IF r.raised
             THEN /\ pl_pc' = run_except(pl_pc).pc
                  /\ pl_raised' = run_except(pl_pc).raised
                  /\ pl_stages' = Append(pl_stages, pl_pc')
                  /\ UNCHANGED <<pl_rankings, pl_rank_calls>>
             ELSE /\ pl_rankings' = r.rankings
                  /\ pl_rank_calls' = 1
                  /\ UNCHANGED <<pl_pc, pl_raised, pl_stages>>
  /\ UNCHANGED <<concepts_map_list, final_main_ideas, reduced, pl_rankings2, pl_ranked,
                 pl_reducer_failed, pl_returned>>
  /\ UNCHANGED <<cbVars, mpVars, rkVars, rtVars, gqVars, fmVars>>

\* self.ranker.get_ranked_concepts(reduced) is entered: its first statement,
\* rankings = self.rank(dict_concepts), is a ranking call of its own.
PipelineGetRankedRank ==
  /\ pl_pc = "Ranking"
  /\ pl_rank_calls = 1
  /\ \E outcome \in GenOutcomes(RunRankResponses) :
       LET r == rank(reduced, outcome)
       IN /\ pl_genfail' = IF r.called /\ ~outcome.ok THEN pl_genfail \cup {pl_pc}
                           ELSE pl_genfail
          /\ IF r.raised
             THEN /\ pl_pc' = run_except(pl_pc).pc
                  /\ pl_raised' = run_except(pl_pc).raised
                  /\ pl_stages' = Append(pl_stages, pl_pc')
                  /\ UNCHANGED <<pl_rankings2, pl_rank_calls>>
             ELSE /\ pl_rankings2' = r.rankings
                  /\ pl_rank_calls' = 2
                  /\ UNCHANGED <<pl_pc, pl_raised, pl_stages>>
  /\ UNCHANGED <<concepts_map_list, final_main_ideas, reduced, pl_rankings, pl_ranked,
                 pl_reducer_failed, pl_returned>>
  /\ UNCHANGED <<cbVars, mpVars, rkVars, rtVars, gqVars, fmVars>>

\* The rest of get_ranked_concepts (zip, sort, the records of the pairs), and
\* return rankings, ranked_concepts
PipelineGetRankedReturn ==
  /\ pl_pc = "Ranking"
  /\ pl_rank_calls = 2
  /\ LET ranked_pairs == SortByKey(Zip(pl_rankings2, reduced))
         ranked_list == [j \in 1..Len(ranked_pairs) |-> ranked_pairs[j][2]]
     IN /\ pl_ranked' = ranked_list
        /\ pl_returned' = <<pl_rankings, ranked_list>>
  /\ pl_pc' = StageAfter(pl_pc)
  /\ pl_stages' = Append(pl_stages, pl_pc')
  /\ UNCHANGED <<concepts_map_list, final_main_ideas, reduced, pl_rank_calls,
                 pl_rankings, pl_rankings2, pl_genfail, pl_reducer_failed, pl_raised>>
  /\ UNCHANGED <<cbVars, mpVars, rkVars, rtVars, gqVars, fmVars>>

PipelineNext ==
  \/ MapTaskStart \/ MapTaskFinish \/ MapCollect \/ MapReturn
  \/ PipelineToCombining
  \/ CombineCheck \/ CombineBatch \/ CombinePassEnd
  \/ PipelineToReducing
  \/ PipelineReduce
  \/ PipelineRank
  \/ PipelineGetRankedRank
  \/ PipelineGetRankedReturn

\* ----------------------------------------------------- QuestionGenerator
\* The value d[key] has in the model when the dictionary d has no such key.
Missing == "<missing>"

\* key in d
HasKey(d, key) == d[key] # Missing

\* The ground_truth of a parsed object that has no such key.
Absent == <<Missing>>

\* The ranked concept records handed over: record j is named after its
\* position; a record may lack its summary.
ConceptLists ==
  UNION {{[j \in 1..n |-> [concept |-> ToString(j), summary |-> shape[j]]] :
            shape \in [1..n -> {"s", Missing}]} : n \in 0..MaxConcepts}

\* What the search of retrieve does on one call: it raises, or gives the
\* (doc, score) pairs of the fused list (none, or one passage).
RetrieveOutcomes ==
  {[failed |-> TRUE, results |-> <<>>], [failed |-> FALSE, results |-> <<>>]}
    \cup {[failed |-> FALSE, results |-> <<<<d, "score">>>>] :
            d \in {x \in IngestedIndex : x.page_content = "p1"}}

\* PassageExtractor.retrieve, seen from its caller: the list, or [] when the
\* body raised.
retrieve(outcome) == IF outcome.failed THEN <<>> ELSE outcome.results

\* PassageExtractor.extract: [doc.page_content for doc, _ in results]
extract(outcome) ==
  LET results == retrieve(outcome)
  IN [a \in 1..Len(results) |-> results[a][1].page_content]

\* f"{concept_dict['concept']}: {concept_dict['summary']}"
MainIdea(concept_dict) == <<concept_dict.concept, ":", concept_dict.summary>>

\* What _generate_single gives when the f-string of its first line raises
\* KeyError.
KeyErrorRaised ==
  [raised |-> TRUE, called |-> FALSE,
   prompt |-> [num_questions |-> 0, main_idea |-> <<>>, passages |-> <<>>],
   raw_output |-> <<>>, main_idea |-> <<>>]

\* Mutant of generate_single: no generation call when no passage was found.
generate_single_skip(concept_dict, num_questions, retrieval, outcome) ==
  IF ~HasKey(concept_dict, "concept") \/ ~HasKey(concept_dict, "summary")
  THEN KeyErrorRaised
  ELSE LET main_idea == MainIdea(concept_dict)
           passages == extract(retrieval)
           result == llm_response(outcome)
       IN [raised |-> FALSE, called |-> passages # <<>>,
           prompt |-> [num_questions |-> num_questions, main_idea |-> main_idea,
                       passages |-> passages],
           raw_output |-> IF passages = <<>> \/ result.raised THEN <<>> ELSE result.answer,
           main_idea |-> main_idea]

\* QuestionGenerator._generate_single: main_idea is built outside the try, the
\* passages go into the prompt, the call is issued; (answer, main_idea) is
\* returned, ("", main_idea) when the call raised.
generate_single(concept_dict, num_questions, retrieval, outcome) ==
  IF ~HasKey(concept_dict, "concept") \/ ~HasKey(concept_dict, "summary")
  THEN KeyErrorRaised
  ELSE LET main_idea == MainIdea(concept_dict)
           passages == extract(retrieval)
           result == llm_response(outcome)
       IN [raised |-> FALSE, called |-> TRUE,
           prompt |-> [num_questions |-> num_questions, main_idea |-> main_idea,
                       passages |-> passages],
           raw_output |-> IF result.raised THEN <<>> ELSE result.answer,
           main_idea |-> main_idea]

\* A raw output is the sequence of its tokens: the fences, the brackets, the
\* comma, whitespace, the literal of a JSON object, a JSON number, prose.
\* The token of the opening fence (three backquotes and json), written with
\* quotes.
FenceOpen == "'''json"

\* The token of the closing fence (three backquotes).
Fence == "'''"

\* The object literals a response may hold, and the dictionary each loads as.
ObjectTokens == {"{q1}", "{q2,gt}"}

ObjectOf(token) ==
  IF token = "{q1}" THEN [question |-> "q1", ground_truth |-> Absent]
  ELSE [question |-> "q2", ground_truth |-> <<"gt">>]

\* The leading whitespace of x removed.
RECURSIVE LStrip(_)
LStrip(x) == IF x # <<>> /\ IsSpace(x[1]) THEN LStrip(Tail(x)) ELSE x

\* The trailing whitespace of x removed.
RECURSIVE RStrip(_)
RStrip(x) ==
  IF x # <<>> /\ IsSpace(x[Len(x)]) THEN RStrip(SubSeq(x, 1, Len(x) - 1)) ELSE x

\* re.sub(r"^```json\s*|\s*```$", "", text): an opening fence at the start goes
\* with the whitespace after it, a fence at the end with the whitespace before.
StripFences(text) ==
  LET opened == IF text # <<>> /\ text[1] = FenceOpen THEN LStrip(Tail(text)) ELSE text
  IN IF opened # <<>> /\ opened[Len(opened)] = Fence
     THEN RStrip(SubSeq(opened, 1, Len(opened) - 1))
     ELSE opened

\* re.search(r"\[.*\]", cleaned, re.DOTALL): from the first "[" to the last "]"
\* after it; <<0, 0>> when there is no match.
ArraySearch(cleaned) ==
  LET opens == {p \in 1..Len(cleaned) : cleaned[p] = "["}
  IN IF opens = {} THEN <<0, 0>>
     ELSE LET p == CHOOSE a \in opens : \A b \in opens : a <= b
              closes == {q \in (p + 1)..Len(cleaned) : cleaned[q] = "]"}
          IN IF closes = {} THEN <<0, 0>>
             ELSE <<p, CHOOSE a \in closes : \A b \in closes : a >= b>>

\* The first index from p on that holds no whitespace (Len(t) + 1 when none).
RECURSIVE SkipSpace(_, _)
SkipSpace(t, p) == IF p <= Len(t) /\ IsSpace(t[p]) THEN SkipSpace(t, p + 1) ELSE p

\* The JSON grammar over the tokens: the index of the last token of the value
\* that starts at p, 0 when no value starts there.
RECURSIVE ValueEnd(_, _)
RECURSIVE MembersEnd(_, _)
ValueEnd(t, p) ==
  IF p > Len(t) THEN 0
  ELSE IF t[p] \in ObjectTokens THEN p
  ELSE IF t[p] = "1" THEN DigitRunEnd(t, p)
  ELSE IF t[p] = "[" THEN
         LET q == SkipSpace(t, p + 1)
         IN IF q <= Len(t) /\ t[q] = "]" THEN q ELSE MembersEnd(t, q)
  ELSE 0

\* A value starts at p inside an array: the index of the "]" that closes the
\* array, 0 when the members are not well formed.
MembersEnd(t, p) ==
  LET e == ValueEnd(t, p)
      n == SkipSpace(t, e + 1)
  IN IF e = 0 \/ n > Len(t) THEN 0
     ELSE IF t[n] = "]" THEN n
     ELSE IF t[n] = "," THEN MembersEnd(t, SkipSpace(t, n + 1))
     ELSE 0

\* What a value loads as: a dictionary, or something that is none.
LoadedValue(t, p) ==
  IF t[p] \in ObjectTokens THEN [is_dict |-> TRUE, dict |-> ObjectOf(t[p])]
  ELSE [is_dict |-> FALSE, dict |-> ObjectOf("{q1}")]

\* The members of a well-formed array, from the token at p on.
RECURSIVE Members(_, _)
Members(t, p) ==
  LET q == SkipSpace(t, p)
  IN IF t[q] = "]" THEN <<>>
     ELSE LET n == SkipSpace(t, ValueEnd(t, q) + 1)
          IN <<LoadedValue(t, q)>> \o (IF t[n] = "," THEN Members(t, n + 1) ELSE <<>>)

\* json.loads(text) for a text that starts with "[" and ends with "]": the
\* list, or JSONDecodeError.
json_loads(text) ==
  IF ValueEnd(text, 1) = Len(text)
  THEN [ok |-> TRUE, values |-> Members(text, 2)]
  ELSE [ok |-> FALSE, values |-> <<>>]

\* Mutant of clean_and_add_ground_truth: a ground_truth the object came with
\* is kept.
clean_keep_ground_truth(raw_output, main_idea) ==
  LET cleaned == StripFences(Strip(raw_output))
      match == ArraySearch(cleaned)
  IN IF match = <<0, 0>> THEN [raised |-> FALSE, questions |-> <<>>]
     ELSE LET loaded == json_loads(SubSeq(cleaned, match[1], match[2]))
              questions == loaded.values
          IN IF ~loaded.ok THEN [raised |-> FALSE, questions |-> <<>>]
             ELSE IF \E a \in 1..Len(questions) : ~questions[a].is_dict
             THEN [raised |-> TRUE, questions |-> <<>>]
             ELSE [raised |-> FALSE,
                   questions |-> [a \in 1..Len(questions) |->
                     IF questions[a].dict.ground_truth = Absent
                     THEN [questions[a].dict EXCEPT !.ground_truth = main_idea]
                     ELSE questions[a].dict]]

\* QuestionGenerator._clean_and_add_ground_truth: no match or JSONDecodeError
\* gives []; q["ground_truth"] = main_idea raises TypeError on a member that is
\* no dictionary, and nothing catches it.
clean_and_add_ground_truth(raw_output, main_idea) ==
  LET cleaned == StripFences(Strip(raw_output))
      match == ArraySearch(cleaned)
  IN IF match = <<0, 0>> THEN [raised |-> FALSE, questions |-> <<>>]
     ELSE LET loaded == json_loads(SubSeq(cleaned, match[1], match[2]))
              questions == loaded.values
          IN IF ~loaded.ok THEN [raised |-> FALSE, questions |-> <<>>]
             ELSE IF \E a \in 1..Len(questions) : ~questions[a].is_dict
             THEN [raised |-> TRUE, questions |-> <<>>]
             ELSE [raised |-> FALSE,
                   questions |-> [a \in 1..Len(questions) |->
                     [questions[a].dict EXCEPT !.ground_truth = main_idea]]]

\* The raw outputs a generation call may return: the array asked for, the
\* array in code fences, prose, an array with a trailing comma, two arrays, an
\* array of a number, an array of an object and a number.
QuestionTexts ==
  { <<"[", "{q1}", ",", " ", "{q2,gt}", "]">>,
    <<FenceOpen, SepToken, "[", "{q2,gt}", "]", SepToken, Fence>>,
    <<"x">>,
    <<"[", "{q1}", ",", "]">>,
    <<"[", "{q1}", "]", " ", "[", "{q1}", "]">>,
    <<"[", "1", "]">>,
    <<"x", "[", "{q1}", ",", "[", "1", "]", "]">> }

\* The future of a task that has not finished.
NoFuture ==
  [done |-> FALSE, raised |-> FALSE, raw_output |-> <<>>, main_idea |-> <<>>]

\* What is known of a task that has not finished.
NoRun ==
  [called |-> FALSE,
   prompt |-> [num_questions |-> 0, main_idea |-> <<>>, passages |-> <<>>],
   retrieval_failed |-> FALSE, genok |-> FALSE,
   response |-> [ok |-> FALSE, text |-> <<>>], runs |-> 0]

\* What is known of the parsing of an output that has not been yielded.
NoParse == [done |-> FALSE, raised |-> FALSE, questions |-> <<>>]

QuestionGenIdle ==
  /\ gq_pc = "idle"
  /\ ranked_concepts = <<>>
  /\ gq_max_workers = 0
  /\ save_path = "None"
  /\ gq_task = <<>>
  /\ gq_future = <<>>
  /\ gq_run = <<>>
  /\ gq_yielded = {}
  /\ gq_parsed = <<>>
  /\ all_questions = <<>>
  /\ gq_origin = <<>>
  /\ gq_saved = "none"
  /\ gq_result = [questions |-> <<>>]

\* generate_questions is entered: all_questions_json = {"questions": []} and
\* every concept is submitted to the pool.
QuestionGenStart ==
  \E cs \in ConceptLists, w \in 1..MaxWorkers, path \in {"None", "out.json"} :
    /\ gq_pc = "running"
    /\ ranked_concepts = cs
    /\ gq_max_workers = w
    /\ save_path = path
    /\ gq_task = [j \in 1..Len(cs) |-> "queued"]
    /\ gq_future = [j \in 1..Len(cs) |-> NoFuture]
    /\ gq_run = [j \in 1..Len(cs) |-> NoRun]
    /\ gq_yielded = {}
    /\ gq_parsed = [j \in 1..Len(cs) |-> NoParse]
    /\ all_questions = <<>>
    /\ gq_origin = <<>>
    /\ gq_saved = "none"
    /\ gq_result = [questions |-> <<>>]

GenRunning == {j \in 1..Len(ranked_concepts) : gq_task[j] = "running"}

GenQueued == {j \in 1..Len(ranked_concepts) : gq_task[j] = "queued"}

\* A free worker of the pool takes the oldest queued task; the pool keeps
\* working while an exception unwinds through the with block.
GenTaskStart ==
  /\ gq_pc \in {"running", "unwinding"}
  /\ GenQueued # {}
  /\ Cardinality(GenRunning) < gq_max_workers
  /\ LET j == CHOOSE q \in GenQueued : \A r \in GenQueued : q <= r
     IN gq_task' = [gq_task EXCEPT ![j] = "running"]
  /\ UNCHANGED <<gq_pc, ranked_concepts, gq_max_workers, save_path, gq_future, gq_run,
                 gq_yielded, gq_parsed, all_questions, gq_origin, gq_saved, gq_result>>
  /\ UNCHANGED notGq

\* A worker runs _generate_single to its end: one retrieval and one
\* generation call, or the KeyError of its first line.
GenTaskFinish ==
  /\ gq_pc \in {"running", "unwinding"}
  /\ \E j \in GenRunning, retrieval \in RetrieveOutcomes,
        outcome \in GenOutcomes(QuestionTexts) :
       LET r == generate_single(ranked_concepts[j], DefaultNumQuestions, retrieval, outcome)
       IN /\ gq_task' = [gq_task EXCEPT ![j] = "finished"]
          /\ gq_future' = [gq_future EXCEPT ![j] =
               [done |-> TRUE, raised |-> r.raised, raw_output |-> r.raw_output,
                main_idea |-> r.main_idea]]
          /\ gq_run' = [gq_run EXCEPT ![j] =
               [called |-> r.called, prompt |-> r.prompt,
                retrieval_failed |-> ~r.raised /\ retrieval.failed,
                genok |-> r.called /\ outcome.ok,
                response |-> IF r.raised THEN NoRun.response ELSE outcome,
                runs |-> gq_run[j].runs + 1]]
  /\ UNCHANGED <<gq_pc, ranked_concepts, gq_max_workers, save_path, gq_yielded,
                 gq_parsed, all_questions, gq_origin, gq_saved, gq_result>>
  /\ UNCHANGED notGq

\* Mutant of GenCollect: a yielded future stays among those to be yielded.
GenCollectDup ==
  /\ gq_pc = "running"
  /\ \E j \in 1..Len(ranked_concepts) :
       /\ gq_task[j] = "finished"
       /\ j \notin gq_yielded
       /\ IF gq_future[j].raised
          THEN /\ gq_pc' = "unwinding"
               /\ UNCHANGED <<gq_parsed, all_questions, gq_origin>>
          ELSE LET parsed == clean_and_add_ground_truth(gq_future[j].raw_output,
                                                        gq_future[j].main_idea)
               IN /\ gq_parsed' = [gq_parsed EXCEPT ![j] =
                       [done |-> TRUE, raised |-> parsed.raised,
                        questions |-> parsed.questions]]
                  /\ IF parsed.raised
                     THEN /\ gq_pc' = "unwinding"
                          /\ UNCHANGED <<all_questions, gq_origin>>
                     ELSE /\ gq_pc' = gq_pc
                          /\ all_questions' = all_questions \o parsed.questions
                          /\ gq_origin' = gq_origin \o [a \in 1..Len(parsed.questions) |-> j]
  /\ UNCHANGED <<ranked_concepts, gq_max_workers, save_path, gq_task, gq_future, gq_run,
                 gq_yielded,
                 gq_saved, gq_result>>
  /\ UNCHANGED notGq

\* One iteration of the loop over as_completed: future.result() re-raises what
\* the task raised; otherwise the output is parsed and the questions appended.
\* An exception leaves the loop and unwinds through the with block.
GenCollect ==
  /\ gq_pc = "running"
  /\ \E j \in 1..Len(ranked_concepts) :
       /\ gq_task[j] = "finished"
       /\ j \notin gq_yielded
       /\ gq_yielded' = gq_yielded \cup {j}
       /\ IF gq_future[j].raised
          THEN /\ gq_pc' = "unwinding"
               /\ UNCHANGED <<gq_parsed, all_questions, gq_origin>>
          ELSE LET parsed == clean_and_add_ground_truth(gq_future[j].raw_output,
                                                        gq_future[j].main_idea)
               IN /\ gq_parsed' = [gq_parsed EXCEPT ![j] =
                       [done |-> TRUE, raised |-> parsed.raised,
                        questions |-> parsed.questions]]
                  /\ IF parsed.raised
                     THEN /\ gq_pc' = "unwinding"
                          /\ UNCHANGED <<all_questions, gq_origin>>
                     ELSE /\ gq_pc' = gq_pc
                          /\ all_questions' = all_questions \o parsed.questions
                          /\ gq_origin' = gq_origin \o [a \in 1..Len(parsed.questions) |-> j]
  /\ UNCHANGED <<ranked_concepts, gq_max_workers, save_path, gq_task, gq_future, gq_run,
                 gq_saved, gq_result>>
  /\ UNCHANGED notGq

\* The with block is left when every task has finished (shutdown(wait=True)),
\* and the exception reaches the caller of generate_questions.
GenRaise ==
  /\ gq_pc = "unwinding"
  /\ \A j \in 1..Len(ranked_concepts) : gq_task[j] = "finished"
  /\ gq_pc' = "raised"
  /\ UNCHANGED <<ranked_concepts, gq_max_workers, save_path, gq_task, gq_future, gq_run,
                 gq_yielded, gq_parsed, all_questions, gq_origin, gq_saved, gq_result>>
  /\ UNCHANGED notGq

\* Every future has been yielded: the file is written when save_path is given
\* (a failure of the write is logged), and all_questions_json is returned.
GenReturn ==
  /\ gq_pc = "running"
  /\ gq_yielded = 1..Len(ranked_concepts)
  /\ gq_pc' = "returned"
  /\ IF save_path = "None" THEN gq_saved' = "none"
     ELSE \E written \in BOOLEAN : gq_saved' = IF written THEN "saved" ELSE "failed"
  /\ gq_result' = [questions |-> all_questions]
  /\ UNCHANGED <<ranked_concepts, gq_max_workers, save_path, gq_task, gq_future, gq_run,
                 gq_yielded, gq_parsed, all_questions, gq_origin>>
  /\ UNCHANGED notGq

QuestionGenNext == GenTaskStart \/ GenTaskFinish \/ GenCollect \/ GenRaise \/ GenReturn

\* -------------------------------------------------------- specifications
\* ----------------------------------------------------- MCQPipelineFactory
\* ranked_concepts[:5], the records run_pipeline hands to generate_questions
TopConcepts == 5

\* The vector store before FAISS.from_texts has made it.
NoDb == [exists |-> FALSE, docs |-> {}]

\* An entry of the log: a write to the index ("write"), the index written to
\* disk ("save"), ingest returning ("ingested"), a search ("query"); each with
\* the number of passages the index holds at that moment.
LogEntry(op) == [op |-> op, docs |-> Cardinality(db.docs)]

\* How many records concept_pipeline.run may return.
RankedCounts == (0..MaxRecords) \cup {TopConcepts + 1}

FactoryIdle ==
  /\ fm_pc = "idle"
  /\ fm_chunks = <<>>
  /\ db = NoDb
  /\ fm_concepts = 0
  /\ fm_task = <<>>
  /\ fm_log = <<>>

\* run_pipeline is entered on a factory whose components __init__ has made.
FactoryStart ==
  /\ fm_pc = "ingest"
  /\ fm_chunks = <<>>
  /\ db = NoDb
  /\ fm_concepts = 0
  /\ fm_task = <<>>
  /\ fm_log = <<>>

\* An exception leaves run_pipeline, which has no try.
FactoryRaise ==
  /\ fm_pc' = "raised"
  /\ UNCHANGED <<fm_chunks, db, fm_concepts, fm_task, fm_log>>

\* ingest, first half: create_chunks_from_file (process and split_documents,
\* either may raise).
FactoryCreateChunks ==
  /\ fm_pc = "ingest"
  /\ \/ \E n \in 0..MaxChunks :
          /\ fm_chunks' = [j \in 1..n |-> [page_content |-> Words(j), source |-> "merged"]]
          /\ fm_pc' = "indexing"
          /\ UNCHANGED <<db, fm_concepts, fm_task, fm_log>>
     \/ FactoryRaise
  /\ UNCHANGED notFm

\* create_new_faiss_index: FAISS.from_texts embeds every chunk and makes the
\* store holding all of them; an exception is logged and raised again.
FactoryCreateIndex ==
  /\ fm_pc = "indexing"
  /\ \/ /\ db' = [exists |-> TRUE, docs |-> {fm_chunks[j] : j \in 1..Len(fm_chunks)}]
        /\ fm_log' = Append(fm_log, [op |-> "write", docs |-> Len(fm_chunks)])
        /\ fm_pc' = "saving"
        /\ UNCHANGED <<fm_chunks, fm_concepts, fm_task>>
     \/ FactoryRaise
  /\ UNCHANGED notFm

\* db.save_local, once more at a temporary path when it fails, and ingest
\* returns (db, stats); a second failure is raised.
FactorySaveIndex ==
  /\ fm_pc = "saving"
  /\ \/ /\ fm_log' = fm_log \o <<LogEntry("save"), LogEntry("ingested")>>
        /\ fm_pc' = "process"
        /\ UNCHANGED <<fm_chunks, db, fm_concepts, fm_task>>
     \/ FactoryRaise
  /\ UNCHANGED notFm

\* Step 2: file_processor.process and chunker.split_documents; either may
\* raise.
FactoryProcess ==
  /\ fm_pc = "process"
  /\ \/ /\ fm_pc' = "concepts"
        /\ UNCHANGED <<fm_chunks, db, fm_concepts, fm_task, fm_log>>
     \/ FactoryRaise
  /\ UNCHANGED notFm

\* Step 3 and the start of step 4: the PassageExtractor is made over db,
\* concept_pipeline.run returns the ranked records or raises, the logging loop
\* reads both keys of every record (and raises on a record that lacks one),
\* and generate_questions submits one task for each of the first five records.
FactoryRunConcepts ==
  /\ fm_pc = "concepts"
  /\ \/ \E m \in RankedCounts :
          /\ fm_concepts' = Min(m, TopConcepts)
          /\ fm_task' = [c \in 1..Min(m, TopConcepts) |-> "queued"]
          /\ fm_pc' = "generate"
          /\ UNCHANGED <<fm_chunks, db, fm_log>>
     \/ FactoryRaise
  /\ UNCHANGED notFm

\* A task of generate_questions calls extract and so retrieve: method 1, the
\* search of the FAISS index; when it raises, retrieve returns [] and the task
\* goes on without the second search. The pool has 8 workers, more than there
\* are tasks.
FactorySearchFaiss ==
  /\ fm_pc = "generate"
  /\ \E c \in 1..fm_concepts :
       /\ fm_task[c] = "queued"
       /\ \E next \in {"sim", "finished"} : fm_task' = [fm_task EXCEPT ![c] = next]
  /\ fm_log' = Append(fm_log, LogEntry("query"))
  /\ UNCHANGED <<fm_pc, fm_chunks, db, fm_concepts>>
  /\ UNCHANGED notFm

\* Mutant of FactorySearchSimilarity: the search adds the query to the store.
FactorySearchSimilarityAdds ==
  /\ fm_pc = "generate"
  /\ \E c \in 1..fm_concepts :
       /\ fm_task[c] = "sim"
       /\ fm_task' = [fm_task EXCEPT ![c] = "finished"]
       /\ db' = [db EXCEPT !.docs = @ \cup {[page_content |-> Words(0), source |-> "query"]}]
  /\ fm_log' = fm_log \o <<LogEntry("query"), LogEntry("write")>>
  /\ UNCHANGED <<fm_pc, fm_chunks, fm_concepts>>
  /\ UNCHANGED notFm

\* Method 2 of retrieve: similarity_search_with_score over the store; then the
\* task fuses, builds its prompt and calls the model.
FactorySearchSimilarity ==
  /\ fm_pc = "generate"
  /\ \E c \in 1..fm_concepts :
       /\ fm_task[c] = "sim"
       /\ fm_task' = [fm_task EXCEPT ![c] = "finished"]
  /\ fm_log' = Append(fm_log, LogEntry("query"))
  /\ UNCHANGED <<fm_pc, fm_chunks, db, fm_concepts>>
  /\ UNCHANGED notFm

\* Every task has ended: generate_questions returns (or raises on an output it
\* cannot take), and run_pipeline with it.
FactoryReturn ==
  /\ fm_pc = "generate"
  /\ \A c \in 1..fm_concepts : fm_task[c] = "finished"
  /\ \/ /\ fm_pc' = "done"
        /\ UNCHANGED <<fm_chunks, db, fm_concepts, fm_task, fm_log>>
     \/ FactoryRaise
  /\ UNCHANGED notFm

FactoryNext ==
  \/ FactoryCreateChunks \/ FactoryCreateIndex \/ FactorySaveIndex
  \/ FactoryProcess \/ FactoryRunConcepts
  \/ FactorySearchFaiss \/ FactorySearchSimilarity
  \/ FactoryReturn

CombinerInit == CombinerStart /\ MapperIdle /\ RankerIdle /\ RetrieverIdle /\ PipelineIdle
  /\ QuestionGenIdle /\ FactoryIdle

MapperInit == MapperStart /\ CombinerIdle /\ RankerIdle /\ RetrieverIdle /\ PipelineIdle
  /\ QuestionGenIdle /\ FactoryIdle

RankerInit == RankerStart /\ CombinerIdle /\ MapperIdle /\ RetrieverIdle /\ PipelineIdle
  /\ QuestionGenIdle /\ FactoryIdle

RetrieverInit == RetrieverStart /\ CombinerIdle /\ MapperIdle /\ RankerIdle /\ PipelineIdle
  /\ QuestionGenIdle /\ FactoryIdle

PipelineInit == PipelineStart /\ RankerIdle /\ RetrieverIdle /\ QuestionGenIdle
  /\ FactoryIdle

QuestionGenInit ==
  QuestionGenStart /\ CombinerIdle /\ MapperIdle /\ RankerIdle /\ RetrieverIdle
    /\ PipelineIdle /\ FactoryIdle

FactoryInit ==
  FactoryStart /\ CombinerIdle /\ MapperIdle /\ RankerIdle /\ RetrieverIdle
    /\ PipelineIdle /\ QuestionGenIdle

CombinerNext == CombineCheck \/ CombineBatch \/ CombinePassEnd \/ CombineReapply

CombinerSpec == CombinerInit /\ [][CombinerNext]_vars

\* The loop is a sequential program: while it has a step to take, it takes it.
CombinerFairSpec == CombinerSpec /\ WF_vars(CombinerNext)

MapperSpec == MapperInit /\ [][MapperNext]_vars

RankerSpec == RankerInit /\ [][RankerNext]_vars

RetrieverSpec == RetrieverInit /\ [][RetrieverNext]_vars

QuestionGenSpec == QuestionGenInit /\ [][QuestionGenNext]_vars

PipelineSpec == PipelineInit /\ [][PipelineNext]_vars

FactorySpec == FactoryInit /\ [][FactoryNext]_vars

\* The three stages that are handed a collection an earlier stage published,
\* each called on its own: combine_concepts on the mapper's blobs,
\* rank / get_ranked_concepts on the reducer's records, generate_questions on
\* the ranked records.
StagesInit ==
  \/ CombinerInit /\ max_tokens = 1
  \/ RankerInit
  \/ QuestionGenInit

StagesNext ==
  \/ CombineCheck \/ CombineBatch \/ CombinePassEnd
  \/ RankerNext
  \/ QuestionGenNext

StagesSpec == StagesInit /\ [][StagesNext]_vars

\* run is a sequential program on live worker threads: while a step can be
\* taken, one is taken.
PipelineFairSpec == PipelineSpec /\ WF_vars(PipelineNext)

\* ---------------------------------------------------- claims: combiner
\* The least p with 2^p >= n.
RECURSIVE CeilLog2(_)
CeilLog2(n) == IF n <= 1 THEN 0 ELSE 1 + CeilLog2(CeilHalf(n))

InScenario == concepts_list = ScenarioBlobs /\ max_tokens = 80

\* C1: combine_concepts terminates for every input list and every maxTokens,
\* whatever the generation calls return: the loop reaches its terminal state.
C1_CombineTerminates == <>(cb_pc = "done")

\* C1, the bound on the passes: ceil(log2 N) halving passes and one pass on the
\* singleton are the most the loop makes.
C1_PassesLogBounded == cb_passes <= CeilLog2(Len(concepts_list)) + 1

\* C2: whenever combine_concepts returns, the returned text is the join of the
\* final set, untruncated, and has at most max_tokens tokens.
C2_ReturnWithinBudget ==
  cb_pc = "done" =>
    /\ count_tokens(cb_result) <= max_tokens
    /\ cb_result = Join(current_sets)

\* C2 witness: a return after a pass in which one batch answer alone was over
\* the budget.
C2_Witness == cb_pc = "done" /\ cb_passes >= 1 /\ cb_oversize

\* C3: every pass on a current set of more than one item leaves a next-round
\* set with strictly fewer items.
C3_PassShrinksSet ==
  \A j \in 1..(Len(cb_trace) - 1) : cb_trace[j] > 1 => cb_trace[j + 1] < cb_trace[j]

\* C4: 4 blobs of 50 tokens under maxTokens = 80: the current set goes from 4
\* items to 2 items to 1 item, and no third pass is made.
C4_ScenarioTwoPasses ==
  InScenario =>
    /\ cb_passes <= 2
    /\ Len(cb_trace) >= 2 => cb_trace[2] = 2
    /\ Len(cb_trace) >= 3 => cb_trace[3] = 1

\* C19: combine_concepts applied to its own returned text, with the same
\* max_tokens, returns that text unchanged and issues no generation call.
C19_ReapplyIsIdentity ==
  (cb_pc = "done" /\ cb_again) =>
    /\ cb_result = cb_first
    /\ cb_calls = 0
    /\ cb_passes = 0

\* C19 witness: the second application has returned a text of exactly
\* max_tokens tokens, more than one.
C19_Witness ==
  /\ cb_pc = "done"
  /\ cb_again
  /\ count_tokens(cb_first) = max_tokens
  /\ max_tokens > 1

\* C20: a batch whose generation call fails leaves the empty string as its
\* entry of the next round's set.
C20_FailedBatchGivesEmpty ==
  \A j \in 1..Len(new_sets) : ~cb_genok[j] => new_sets[j] = <<>>

\* The items of the batches of the pass, one after the other.
RECURSIVE BatchItems(_)
BatchItems(batches) ==
  IF batches = <<>> THEN <<>>
  ELSE batches[1].items \o BatchItems(Tail(batches))

\* C34: when the joined input is already within max_tokens, combine_concepts
\* returns the inputs joined, unchanged, without a pass and without a
\* generation call; the empty input list is such an input and gives the empty
\* string.
C34_WithinBudgetNoCall ==
  (cb_pc = "done" /\ WithinBudget(concepts_list, max_tokens)) =>
    /\ cb_calls = 0
    /\ cb_passes = 0
    /\ cb_result = Join(concepts_list)
    /\ concepts_list = <<>> => cb_result = <<>>

\* C34 witness: three blobs, one of them empty, whose join uses the whole
\* budget, returned joined.
C34_Witness ==
  /\ cb_pc = "done"
  /\ ~cb_again
  /\ Len(concepts_list) = 3
  /\ \E j \in 1..3 : concepts_list[j] = <<>>
  /\ count_tokens(Join(concepts_list)) = max_tokens
  /\ cb_calls = 0
  /\ cb_result = Join(concepts_list)

\* C34 witness of the empty list: returned as the empty string under the
\* budget 0.
C34_EmptyWitness ==
  /\ cb_pc = "done"
  /\ ~cb_again
  /\ concepts_list = <<>>
  /\ max_tokens = 0
  /\ cb_calls = 0
  /\ cb_result = <<>>

\* C26: in each pass the batches are consecutive non-empty parts of the
\* current set that together cover the items up to the loop position, each
\* once and in order, and the whole set when the loop is exhausted; one
\* generation call is issued per batch, and the answer of batch i is entry i
\* of the set being built, which becomes the next round's set.
C26_BatchesPartitionInOrder ==
  /\ cb_pc = "batch" =>
       /\ BatchItems(cb_batches) = SubSeq(current_sets, 1, Min(cb_i, Len(current_sets)))
       /\ \A k \in 1..Len(cb_batches) : cb_batches[k].items # <<>>
       /\ Len(new_sets) = Len(cb_batches)
       /\ \A k \in 1..Len(cb_batches) : new_sets[k] = cb_batches[k].answer
       /\ (cb_passes = 0 /\ cb_calls < MaxCalls) => cb_calls = Len(cb_batches)
  /\ (cb_pc \in {"check", "done"} /\ cb_passes >= 1) => current_sets = new_sets

\* C26 witness: the loop of a pass over three items is exhausted: two
\* batches, of two items and of one, whose different answers stand in that
\* order in the set being built.
C26_Witness ==
  /\ cb_pc = "batch"
  /\ cb_i >= Len(current_sets)
  /\ Len(current_sets) = 3
  /\ Len(cb_batches) = 2
  /\ cb_batches[1].items = SubSeq(current_sets, 1, 2)
  /\ cb_batches[2].items = SubSeq(current_sets, 3, 3)
  /\ cb_batches[1].answer # cb_batches[2].answer
  /\ new_sets = <<cb_batches[1].answer, cb_batches[2].answer>>

\* C26 witness of the next round: a second pass runs on the two answers of
\* the first.
C26_NextRoundWitness ==
  /\ cb_pc = "batch"
  /\ cb_passes = 1
  /\ Len(concepts_list) = 3
  /\ Len(current_sets) = 2
  /\ Len(cb_batches) = 1
  /\ cb_batches[1].items = <<current_sets[1]>>

\* ------------------------------------------------------ claims: mapper
Succeeded == {j \in 1..Len(chunks) : mp_genok[j]}

\* C5: a chunk whose generation call fails contributes no blob: the output of
\* extract holds one blob per chunk whose call succeeded, each from such a
\* chunk, and is empty exactly when no chunk's call succeeded.
C5_FailedChunksExcluded ==
  mp_pc = "returned" =>
    /\ Len(mp_output) = Cardinality(Succeeded)
    /\ \A j \in 1..Len(mp_origin) : mp_origin[j] \in Succeeded
    /\ (mp_output = <<>>) <=> (Succeeded = {})

\* The chunks for which process_chunk has returned a result.
Processed == {j \in 1..Len(chunks) : mp_task[j] = "finished" /\ Truthy(mp_future[j])}

\* C23: whatever the order in which the tasks complete, the loop never takes
\* the result of a chunk twice and no chunk gets more than one generation
\* call; when extract returns, its output holds exactly one blob per chunk
\* whose process_chunk returned a result, each the blob of that chunk (only the
\* order may differ from the input's), and every chunk has had exactly one
\* generation call.
C23_OneBlobPerChunk ==
  /\ \A a, b \in 1..Len(mp_origin) : a # b => mp_origin[a] # mp_origin[b]
  /\ Len(concepts) = Len(mp_origin)
  /\ \A j \in 1..Len(mp_calls) : mp_calls[j] <= 1
  /\ mp_pc = "returned" =>
       /\ {mp_origin[a] : a \in 1..Len(mp_origin)} = Processed
       /\ Len(mp_output) = Cardinality(Processed)
       /\ \A a \in 1..Len(mp_output) : mp_output[a] = mp_future[mp_origin[a]].concepts
       /\ \A j \in 1..Len(chunks) : mp_calls[j] = 1

\* C23 witness: extract has returned the blobs of three chunks in an order
\* that is not the input's, the third chunk's first.
C23_Witness ==
  /\ mp_pc = "returned"
  /\ Len(chunks) = 3
  /\ Len(mp_output) = 3
  /\ mp_origin = <<3, 1, 2>>
  /\ mp_output[1] # mp_output[2]

\* C24: while extract runs, the tasks in the workers (each inside its one
\* blocking generation call) are never more than max_workers, and extract has
\* returned only when every submitted task has finished and been collected.
C24_BoundedPoolAndBarrier ==
  /\ mp_pc = "running" => Cardinality(Running) <= max_workers
  /\ mp_pc = "returned" =>
       /\ \A j \in 1..Len(chunks) : mp_task[j] = "finished"
       /\ mp_yielded = 1..Len(chunks)

\* C24 witness: three chunks over two workers: both workers are busy while the
\* third task waits in the queue.
C24_Witness ==
  /\ mp_pc = "running"
  /\ Len(chunks) = 3
  /\ max_workers = 2
  /\ Cardinality(Running) = 2
  /\ Queued = {3}

\* C24 witness of the default pool: eight workers, three tasks in flight.
C24_DefaultWitness ==
  /\ mp_pc = "running"
  /\ max_workers = DefaultMaxWorkers
  /\ Cardinality(Running) = 3

\* ------------------------------------------------------ claims: ranker
IsPermutation(r, n) == Len(r) = n /\ {r[j] : j \in 1..Len(r)} = 1..n

\* C6: rank returns a valid permutation of 1..N for every model response.
C6_RankIsPermutation ==
  rk_pc = "ranked" => IsPermutation(rk_rankings, Len(dict_concepts))

\* C7: whenever the parsed list does not have exactly N entries, rank returns
\* [1, 2, ..., N] and does not raise.
C7_WrongCountGivesIdentity ==
  (rk_pc = "ranked" /\ Len(rk_parsed) # Len(dict_concepts)) =>
    /\ ~rk_raised
    /\ rk_rankings = IdentityOrder(Len(dict_concepts))

\* C7 witness: a response whose parsed list is not empty and has the wrong
\* count, for at least two records.
C7_Witness ==
  /\ rk_pc = "ranked"
  /\ Len(dict_concepts) >= 2
  /\ rk_parsed # <<>>
  /\ Len(rk_parsed) # Len(dict_concepts)
  /\ rk_rankings = IdentityOrder(Len(dict_concepts))

\* The position of a record in the input list.
PositionOf(record) == CHOOSE j \in 1..Len(dict_concepts) : dict_concepts[j] = record

\* C8: get_ranked_concepts returns the input records ascending by rank value,
\* records of equal rank in input order; ranks [2,1,3] over [X,Y,Z] give [Y,X,Z].
C8_RankedAscendingStable ==
  rk_pc = "sorted" =>
    /\ Len(rk_ranked) = Len(dict_concepts)
    /\ \A j \in 1..Len(dict_concepts) : \E a \in 1..Len(rk_ranked) : rk_ranked[a] = dict_concepts[j]
    /\ \A a, b \in 1..Len(rk_ranked) :
         a < b =>
           LET pa == PositionOf(rk_ranked[a])
               pb == PositionOf(rk_ranked[b])
           IN \/ rk_rankings[pa] < rk_rankings[pb]
              \/ (rk_rankings[pa] = rk_rankings[pb] /\ pa < pb)
    /\ (rk_rankings = <<2, 1, 3>>) =>
         [j \in 1..3 |-> rk_ranked[j].concept] = <<"Y", "X", "Z">>

\* C8 witness: the ranks [2,1,3] over [X,Y,Z], returned as [Y,X,Z].
C8_Witness ==
  /\ rk_pc = "sorted"
  /\ rk_rankings = <<2, 1, 3>>
  /\ [j \in 1..Len(rk_ranked) |-> rk_ranked[j].concept] = <<"Y", "X", "Z">>

\* C8 witness of the tie: two records of equal rank, kept in input order.
C8_TieWitness ==
  /\ rk_pc = "sorted"
  /\ rk_rankings = <<1, 1>>
  /\ rk_ranked = dict_concepts

\* How many entries of a list are the record.
Occurrences(list, record) == Cardinality({a \in 1..Len(list) : list[a] = record})

\* C30: whatever the model answers, get_ranked_concepts returns a permutation
\* of its input: a list of the same length in which every input record stands
\* as many times as in the input (once), none dropped or doubled by the zip.
C30_RankedIsPermutation ==
  rk_pc = "sorted" =>
    /\ ~rk_raised
    /\ Len(rk_ranked) = Len(dict_concepts)
    /\ \A j \in 1..Len(dict_concepts) :
         Occurrences(rk_ranked, dict_concepts[j]) = Occurrences(dict_concepts, dict_concepts[j])
    /\ \A a \in 1..Len(rk_ranked) : Occurrences(dict_concepts, rk_ranked[a]) >= 1

\* C30 witness: three records and an answer whose parsed list is shorter (two
\* integers): all three records are returned.
C30_Witness ==
  /\ rk_pc = "sorted"
  /\ Len(dict_concepts) = 3
  /\ Len(rk_parsed) = 2
  /\ {rk_ranked[a] : a \in 1..Len(rk_ranked)} = {dict_concepts[j] : j \in 1..3}

\* C30 witness of a repeated rank: the answer [1, 1, 3] is kept as the
\* rankings and the three records are returned.
C30_RepeatedRankWitness ==
  /\ rk_pc = "sorted"
  /\ rk_rankings = <<1, 1, 3>>
  /\ Len(rk_ranked) = 3

\* After an integer of a bracketed list: whitespace, then "]" (the list ends
\* there) or "," and the next integer. The index of the "]", 0 when the text is
\* no such list.
RECURSIVE ListItemEnd(_, _)
ListItemEnd(s, p) ==
  LET d == SkipSpace(s, p)
  IN IF d > Len(s) \/ ~IsDigit(s[d]) THEN 0
     ELSE LET n == SkipSpace(s, DigitRunEnd(s, d) + 1)
          IN IF n > Len(s) THEN 0
             ELSE IF s[n] = "]" THEN n
             ELSE IF s[n] = "," THEN ListItemEnd(s, n + 1)
             ELSE 0

\* The span of the first bracketed list of integers separated by commas,
\* <<0, 0>> when the response has none.
FirstIntegerList(s) ==
  LET starts == {p \in 1..Len(s) : s[p] = "[" /\ ListItemEnd(s, p + 1) # 0}
  IN IF starts = {} THEN <<0, 0>>
     ELSE LET p == CHOOSE a \in starts : \A b \in starts : a <= b
          IN <<p, ListItemEnd(s, p + 1)>>

\* The integers of a text, in order of appearance.
IntegersOf(s) ==
  LET numbers == FindNumbers(s, 1)
  IN [j \in 1..Len(numbers) |-> IntOf(numbers[j])]

\* C28: parse_rankings returns the integers of the first bracketed list of
\* integers separated by commas, in order; for a response without such a list
\* it returns all the integers of the text in order of appearance, and so the
\* empty list when there are none.
C28_ParseBracketedElseAll ==
  (rk_pc = "ranked" /\ rk_calls >= 1) =>
    LET span == FirstIntegerList(rk_answer)
    IN rk_parsed = IF span # <<0, 0>>
                   THEN IntegersOf(SubSeq(rk_answer, span[1] + 1, span[2] - 1))
                   ELSE IntegersOf(rk_answer)

\* C36: rank on an empty record list returns the empty list and issues no
\* generation call (and does not raise).
C36_EmptyRankNoCall ==
  (rk_pc = "ranked" /\ dict_concepts = <<>>) =>
    /\ rk_rankings = <<>>
    /\ rk_calls = 0
    /\ ~rk_raised

\* C36 witness: rank has returned for the empty list.
C36_Witness ==
  /\ rk_pc = "ranked"
  /\ dict_concepts = <<>>
  /\ rk_rankings = <<>>
  /\ rk_calls = 0

\* --------------------------------------------------- claims: retriever
\* The ranks (0-based) at which a passage keyed doc_id stands in one list.
RanksOf(results, doc_id) == {r \in 0..(Len(results) - 1) : DocId(results[r + 1][1]) = doc_id}

\* The sum of 1/(60 + r + 1) over a set of ranks.
RECURSIVE SumOverRanks(_)
SumOverRanks(ranks) ==
  IF ranks = {} THEN FracZero
  ELSE LET r == CHOOSE x \in ranks : TRUE
       IN FracAdd(Frac(1, 60 + r + 1), SumOverRanks(ranks \ {r}))

\* The sum over the method lists.
RECURSIVE ExpectedScore(_, _)
ExpectedScore(lists, doc_id) ==
  IF lists = <<>> THEN FracZero
  ELSE FracAdd(SumOverRanks(RanksOf(lists[1], doc_id)), ExpectedScore(Tail(lists), doc_id))

Returned == rt_pc = "returned" /\ ~rt_failed

RECURSIVE FirstSeenOrder(_, _)
FirstSeenOrder(entries, seen) ==
  IF entries = <<>> THEN seen
  ELSE LET doc_id == DocId(entries[1][1])
       IN FirstSeenOrder(Tail(entries),
                         IF \E a \in 1..Len(seen) : seen[a] = doc_id THEN seen
                         ELSE Append(seen, doc_id))

FirstSeen(doc_id) ==
  LET order == FirstSeenOrder(results_lists[1] \o results_lists[2], <<>>)
  IN CHOOSE a \in 1..Len(order) : order[a] = doc_id

\* C10: retrieve returns the fused list sorted descending by accumulated score,
\* cut to at most k entries, equal scores in first-seen order of their ids.
C10_SortedTruncatedFirstSeen ==
  Returned =>
    /\ Len(rt_result) = Min(rt_k, Len(scores))
    /\ \A a, b \in 1..Len(rt_result) :
         a < b =>
           \/ FracLess(rt_result[b][2], rt_result[a][2])
           \/ /\ rt_result[a][2] = rt_result[b][2]
              /\ FirstSeen(DocId(rt_result[a][1])) < FirstSeen(DocId(rt_result[b][1]))
    /\ \A a \in 1..Len(scores) :
         (\A b \in 1..Len(rt_result) : DocId(rt_result[b][1]) # scores[a][1]) =>
           \A b \in 1..Len(rt_result) : ~FracLess(rt_result[b][2], scores[a][2])

\* C10 witness: a return cut to k entries that holds two passages of equal
\* score.
C10_Witness ==
  /\ Returned
  /\ Len(scores) > rt_k
  /\ \E a, b \in 1..Len(rt_result) : a < b /\ rt_result[a][2] = rt_result[b][2]

\* The passages that stand in some method list.
ListedDocs ==
  UNION {{results_lists[l][a][1] : a \in 1..Len(results_lists[l])} : l \in 1..Len(results_lists)}

\* C11: an error in one retrieval method degrades only that method: when a
\* method has ranked passages, retrieve returns fused passages from among them,
\* whatever the other method did; the result is empty only when no method
\* ranked a passage.
C11_MethodErrorDegradesOnly ==
  (rt_pc = "returned" /\ \E l \in 1..Len(results_lists) : results_lists[l] # <<>>) =>
    /\ rt_result # <<>>
    /\ \A a \in 1..Len(rt_result) : rt_result[a][1] \in ListedDocs

\* C12: for the ingested index, two different passages never share one fused
\* entry: the fused list, before its truncation, has one entry per distinct
\* passage of the method lists.
C12_OneEntryPerPassage ==
  (Returned /\ rt_index = IngestedIndex) =>
    Len(scores) = Cardinality(ListedDocs)

\* The method lists with the method-local scores wiped out: the passages at
\* their rank positions, and nothing else.
RanksOnly(lists) ==
  [l \in 1..Len(lists) |-> [a \in 1..Len(lists[l]) |-> <<lists[l][a][1], 0>>]]

\* C27: what retrieve returns (the passages, their order, their fused scores)
\* is the fusion of the method lists with their scores wiped out: it is a
\* function of the rank positions alone, so two runs whose lists hold the same
\* passages in the same order return the same, whatever the methods' scores.
C27_FusionIgnoresMethodScores ==
  Returned =>
    rt_result = Truncate(reciprocal_rank_fusion(RanksOnly(results_lists)), rt_k)

\* C27 witness: a return of two fused passages from lists in which the same
\* rank position carries different method scores and one list holds two
\* different scores.
C27_Witness ==
  /\ Returned
  /\ Len(rt_result) >= 2
  /\ Len(results_lists[1]) >= 2 /\ Len(results_lists[2]) >= 2
  /\ results_lists[1][1][1] = results_lists[2][1][1]
  /\ results_lists[1][1][2] # results_lists[2][1][2]
  /\ results_lists[1][1][2] # results_lists[1][2][2]

\* Every key of the dictionary scores is still a key after the step, with a
\* score that is not smaller.
ScoresKeptOrRaised ==
  \A a \in 1..Len(scores) :
    LET b == KeyIndex(scores', scores[a][1])
    IN b # 0 /\ ~FracLess(scores'[b][2], scores[a][2])

\* No id stands twice in one method list.
EachIdOncePerList ==
  \A l \in 1..Len(results_lists) :
    \A a, b \in 1..Len(results_lists[l]) :
      a # b => DocId(results_lists[l][a][1]) # DocId(results_lists[l][b][1])

\* 0 < score <= M / (60 + 1)
WithinFusedBound(score, m) ==
  FracLess(FracZero, score) /\ ~FracLess(Frac(m, RrfK + 1), score)

C35_ExtractProjectsRetrieve ==
  rt_pc = "extracted" =>
    /\ rt_k = DefaultK
    /\ rt_result = IF rt_failed THEN <<>>
                   ELSE Truncate(reciprocal_rank_fusion(results_lists), DefaultK)
    /\ Len(rt_passages) = Len(rt_result)
    /\ Len(rt_passages) <= 5
    /\ \A a \in 1..Len(rt_result) : rt_passages[a] = rt_result[a][1].page_content
    /\ rt_result = <<>> => rt_passages = <<>>

\* C35 witness: six passages were fused, retrieve returned five of them and
\* extract their five texts, the first two of them different.
C35_Witness ==
  /\ rt_pc = "extracted"
  /\ Len(scores) = 6
  /\ Len(rt_result) = 5
  /\ Len(rt_passages) = 5
  /\ rt_passages[1] # rt_passages[2]

\* C35 witness of the empty result: retrieve's body raised after a method had
\* ranked passages, and extract returned the empty list.
C35_EmptyWitness ==
  /\ rt_pc = "extracted"
  /\ rt_failed
  /\ results_lists # <<>> /\ results_lists[1] # <<>>
  /\ rt_passages = <<>>

\* ---------------------------------------------------- claims: pipeline
RunStages == <<"Mapping", "Combining", "Reducing", "Ranking", "Done">>

IsPrefix(a, b) == Len(a) <= Len(b) /\ a = SubSeq(b, 1, Len(a))

\* The stages entered so far are an initial part of the order of run, each
\* entered once; Done has the pair returned, Failed has the error raised.
StagesInOrder ==
  /\ pl_stages # <<>>
  /\ pl_pc = pl_stages[Len(pl_stages)]
  /\ \/ IsPrefix(pl_stages, RunStages)
     \/ /\ pl_pc = "Failed"
        /\ Len(pl_stages) >= 2
        /\ IsPrefix(SubSeq(pl_stages, 1, Len(pl_stages) - 1), SubSeq(RunStages, 1, 4))
  /\ pl_pc = "Done" => (pl_returned = <<pl_rankings, pl_ranked>> /\ ~pl_raised)
  /\ pl_pc = "Failed" => (pl_raised /\ pl_returned = <<>>)

\* C13: every run passes through Mapping, Combining, Reducing, Ranking in that
\* order, each entered once and none skipped or re-entered, and ends in Done
\* or in Failed.
C13_RunEndsInOrder == []StagesInOrder /\ <>(pl_pc \in {"Done", "Failed"})

\* C14: run raises exactly when reducer.reduce has failed; failed generation
\* calls in Mapping, Combining or Ranking do not make it fail.
C14_FailsIffReducerFails ==
  /\ pl_raised <=> pl_reducer_failed
  /\ (pl_pc = "Failed") <=> pl_reducer_failed
  /\ (pl_pc = "Done" /\ pl_genfail # {}) => ~pl_raised

\* C14 witness: a run that has returned although generation calls failed in
\* Mapping, in Combining and in Ranking.
C14_Witness ==
  /\ pl_pc = "Done"
  /\ pl_genfail = {"Mapping", "Combining", "Ranking"}
  /\ pl_returned # <<>>

\* C14 witness of the failure: the reducer has failed after failed generation
\* calls in the stages before it, and run has raised.
C14_FailedWitness ==
  /\ pl_pc = "Failed"
  /\ pl_reducer_failed
  /\ pl_raised
  /\ pl_stages = <<"Mapping", "Combining", "Reducing", "Failed">>

\* C29: the pair run returns is consistent: its ranked_concepts is the
\* reduced list put in ascending order of the returned rankings, records of
\* equal rank in their order in the reduced list, whatever the generation
\* calls of the Ranking stage answer.
C29_ReturnedPairConsistent ==
  pl_pc = "Done" =>
    LET ranked_pairs == SortByKey(Zip(pl_returned[1], reduced))
    IN pl_returned[2] = [j \in 1..Len(ranked_pairs) |-> ranked_pairs[j][2]]

\* ------------------------------------------- claims: QuestionGenerator
Concepts == 1..Len(ranked_concepts)

\* The entries of all_questions that come from concept j, from entry a on.
RECURSIVE QuestionsFrom(_, _)
QuestionsFrom(j, a) ==
  IF a > Len(all_questions) THEN <<>>
  ELSE (IF gq_origin[a] = j THEN <<all_questions[a]>> ELSE <<>>) \o QuestionsFrom(j, a + 1)

\* The record of concept j has both keys.
WellFormed(j) ==
  HasKey(ranked_concepts[j], "concept") /\ HasKey(ranked_concepts[j], "summary")

\* The raw output holds a bracketed array that is valid JSON and whose members
\* are all objects.
IsQuestionArray(raw_output) ==
  LET cleaned == StripFences(Strip(raw_output))
      match == ArraySearch(cleaned)
  IN /\ match # <<0, 0>>
     /\ LET loaded == json_loads(SubSeq(cleaned, match[1], match[2]))
        IN loaded.ok /\ \A a \in 1..Len(loaded.values) : loaded.values[a].is_dict

\* C15: a failure while one concept is processed (malformed record, failed
\* retrieval, failed generation call, unparseable output) never aborts
\* generate_questions: when the call has ended, it has returned, and the
\* questions of every concept whose output is an array of questions are in the
\* returned collection.
C15_FailureNeverAborts ==
  gq_pc \in {"returned", "raised"} =>
    \A j \in Concepts :
      (WellFormed(j) /\ IsQuestionArray(gq_future[j].raw_output)) =>
        /\ gq_pc = "returned"
        /\ QuestionsFrom(j, 1) =
             clean_and_add_ground_truth(gq_future[j].raw_output,
                                        MainIdea(ranked_concepts[j])).questions

\* C16: for every yielded output that is no array of question objects (no
\* bracketed array, invalid JSON, a member that is no object),
\* _clean_and_add_ground_truth has returned the empty list and has not raised.
C16_UnparseableGivesNone ==
  \A j \in gq_yielded :
    (~gq_future[j].raised /\ ~IsQuestionArray(gq_future[j].raw_output)) =>
      /\ gq_parsed[j].done
      /\ ~gq_parsed[j].raised
      /\ gq_parsed[j].questions = <<>>

\* C17: every question of the collection (the one being built and the one
\* returned) carries as ground_truth the main idea "{concept}: {summary}" of
\* the input concept whose task produced it, whatever the order in which the
\* tasks complete.
C17_GroundTruthIsMainIdea ==
  /\ Len(gq_origin) = Len(all_questions)
  /\ \A a \in 1..Len(all_questions) :
       all_questions[a].ground_truth = MainIdea(ranked_concepts[gq_origin[a]])
  /\ gq_pc = "returned" => gq_result.questions = all_questions

\* C17 witness: a returned collection in which a question of the second
\* concept stands before one of the first, one of them an object that came
\* with a ground_truth of its own.
C17_Witness ==
  /\ gq_pc = "returned"
  /\ gq_result.questions # <<>>
  /\ \E a, b \in 1..Len(gq_origin) : a < b /\ gq_origin[a] = 2 /\ gq_origin[b] = 1
  /\ \E a \in 1..Len(gq_result.questions) : gq_result.questions[a].question = "q2"

\* C18: a task whose retrieval gave no passage (the search found none, or
\* retrieve failed and returned []) has still issued its generation call, with
\* an empty passages section in the prompt, and has not raised; its raw output
\* is the answer of that call, an answer that is an array of questions is
\* parsed without raising, and when generate_questions has returned, the
\* questions parsed from it are in the returned collection.
C18_NoPassagesStillGenerates ==
  \A j \in Concepts :
    (gq_task[j] = "finished" /\ WellFormed(j)) =>
      /\ gq_run[j].retrieval_failed => gq_run[j].prompt.passages = <<>>
      /\ gq_run[j].prompt.passages = <<>> =>
           /\ gq_run[j].called
           /\ ~gq_future[j].raised
           /\ gq_run[j].prompt.main_idea = MainIdea(ranked_concepts[j])
           /\ gq_future[j].raw_output = llm_response(gq_run[j].response).answer
           /\ (j \in gq_yielded /\ IsQuestionArray(gq_future[j].raw_output)) =>
                gq_parsed[j].done /\ ~gq_parsed[j].raised
           /\ gq_pc = "returned" =>
                QuestionsFrom(j, 1) =
                  clean_and_add_ground_truth(gq_future[j].raw_output,
                                             MainIdea(ranked_concepts[j])).questions

\* C18 witness: generate_questions has returned the questions of a concept
\* whose retrieval failed and those of a concept whose search found nothing.
C18_Witness ==
  /\ gq_pc = "returned"
  /\ \E j, i \in Concepts :
       /\ gq_run[j].retrieval_failed /\ gq_run[j].prompt.passages = <<>>
       /\ ~gq_run[i].retrieval_failed /\ gq_run[i].prompt.passages = <<>>
       /\ gq_run[j].genok /\ gq_run[i].genok
       /\ Len(QuestionsFrom(j, 1)) = 2
       /\ Len(QuestionsFrom(i, 1)) = 1
       /\ Len(gq_result.questions) = 3

\* C22: generate_questions always ends by returning a dictionary whose single
\* key questions holds the list of the collected questions: it never raises,
\* whether every concept fails, there is no concept, or the save fails.
C22_AlwaysReturnsWellFormed ==
  /\ gq_pc \notin {"unwinding", "raised"}
  /\ gq_pc = "returned" =>
       /\ DOMAIN gq_result = {"questions"}
       /\ gq_result.questions = all_questions

\* C25: whatever the order in which the tasks complete, no task runs twice and
\* the collection holds, for every concept, exactly the questions parsed from
\* its output once its future has been yielded and nothing before (so no
\* worker writes it), the questions of one concept standing together; when
\* generate_questions returns, every concept's task has run exactly once and
\* the returned collection is that collection.
C25_OneTaskPerConceptUnion ==
  /\ \A j \in Concepts :
       /\ gq_run[j].runs <= 1
       /\ gq_run[j].runs = 1 <=> gq_task[j] = "finished"
       /\ QuestionsFrom(j, 1) =
            IF j \in gq_yielded /\ gq_parsed[j].done /\ ~gq_parsed[j].raised
            THEN clean_and_add_ground_truth(gq_future[j].raw_output,
                                            gq_future[j].main_idea).questions
            ELSE <<>>
  /\ \A a, b, c \in 1..Len(gq_origin) :
       (a < b /\ b < c /\ gq_origin[a] = gq_origin[c]) => gq_origin[b] = gq_origin[a]
  /\ gq_pc = "returned" =>
       /\ \A j \in Concepts : gq_run[j].runs = 1 /\ j \in gq_yielded
       /\ gq_result.questions = all_questions

\* C25 witness: two concepts of two questions each, the second concept's task
\* collected first: the four questions are returned, two and two.
C25_Witness ==
  /\ gq_pc = "returned"
  /\ gq_origin = <<2, 2, 1, 1>>
  /\ Len(gq_result.questions) = 4

\* ------------------------------------------------------ claims: stages
\* C31: no stage mutates the collection it was handed: over every step of a
\* call of combine_concepts the input list is what it was, over every step of
\* rank and get_ranked_concepts the input records and their order are what
\* they were, and over every step of generate_questions the ranked concept
\* records are what they were.
C31_InputsNotMutated ==
  [][ /\ concepts_list' = concepts_list
      /\ dict_concepts' = dict_concepts
      /\ ranked_concepts' = ranked_concepts ]_vars

\* C31 witness: combine_concepts has returned after a pass over three blobs;
\* the list it worked on is another list than the input, which is as it was
\* handed in.
C31_Witness ==
  /\ cb_pc = "done"
  /\ cb_passes >= 1
  /\ Len(concepts_list) = 3
  /\ current_sets # concepts_list

\* C31 witness of the ranker: the returned list is in another order than the
\* three input records, which are in the order they were handed in.
C31_RankerWitness ==
  /\ rk_pc = "sorted"
  /\ Len(dict_concepts) = 3
  /\ rk_ranked # dict_concepts
  /\ dict_concepts \in RecordLists

\* C31 witness of the generator: questions carrying a ground_truth have been
\* returned, and the records they come from are those that were handed in.
C31_GeneratorWitness ==
  /\ gq_pc = "returned"
  /\ all_questions # <<>>
  /\ ranked_concepts \in ConceptLists

\* ----------------------------------------------------- claims: factory
\* C32: in run_pipeline every search of the index comes after ingest has
\* returned and sees the index holding every chunk ingest made, and no write
\* to the index comes after a search.
C32_BuildBeforeQuery ==
  \A i \in 1..Len(fm_log) :
    fm_log[i].op = "query" =>
      /\ \E j \in 1..(i - 1) : fm_log[j].op = "ingested"
      /\ fm_log[i].docs = Len(fm_chunks)
      /\ \A j \in (i + 1)..Len(fm_log) : fm_log[j].op # "write"

\* C32 witness: run_pipeline has returned after five tasks searched an index
\* of three chunks, ten searches in all.
C32_Witness ==
  /\ fm_pc = "done"
  /\ Len(fm_chunks) = 3
  /\ fm_concepts = 5
  /\ Cardinality({i \in 1..Len(fm_log) : fm_log[i].op = "query"}) = 10
  /\ Cardinality({i \in 1..Len(fm_log) : fm_log[i].op = "write"}) = 1

====
